---- MODULE Spec2Model ----
(***************************************************************************)
(* Model of the Wonderland Engine JavaScript API binding layer             *)
(* (src/src/wonderland.ts): the wrapper caches (ObjectCache,               *)
(* ComponentCache), the temporary-memory arena (_tempMem and its typed     *)
(* views) and the mesh attribute accessor, together with the part of the   *)
(* native runtime's contract that the binding calls into.                  *)
(***************************************************************************)
EXTENDS Integers, Sequences, FiniteSets, TLC

(***************************************************************************)
(* Bounds of the model.                                                    *)
(***************************************************************************)
\* Object handles issued by the native runtime are 1..MaxHandle (0 is the
\* root / "no object").
MaxHandle == 1
\* Component ids issued by each native component manager are 0..MaxCompId.
MaxCompId == 0
\* Wrapper instances ($Object and Component together) the host constructs.
MaxInst == 3
\* Heap blocks the native allocator can hand out at the same time.
MaxBlocks == 2
\* The arena is grown to at most MaxChunks chunks of 1024 bytes.
MaxChunks == 2
\* Vertices of a small mesh, and of a mesh whose attribute data exceeds the
\* arena's initial capacity.
NVerts == 3
BigVerts == 65
\* A vertex attribute has 1..MaxComponentCount components.
MaxComponentCount == 4
\* Scene.append calls made.
MaxLoads == 2
\* Objects asked for in one Scene.addObjects call.
MaxCount == 1000
\* Native materials have indices 1..MaxMaterialId, textures ids
\* 0..MaxTextureId; at most MaxMaterials Material and MaxTextures Texture
\* instances are constructed.
MaxMaterialId == 1
MaxTextureId == 1
MaxMaterials == 2
MaxTextures == 1

(***************************************************************************)
(* JavaScript values.  Numbers are integers; null and undefined are        *)
(* encoded as two integers no handle, address or size ever takes.          *)
(***************************************************************************)
JsNull == -98
JsUndefined == -99

\* A number argument crossing into a WebAssembly export is converted with
\* ToInt32: null and undefined both arrive as 0.
ToInt32(x) == IF x \in {JsNull, JsUndefined} THEN 0 ELSE x

\* JavaScript truthiness of a number-or-null value.
Truthy(x) == x \notin {0, JsNull, JsUndefined}

\* "No wrapper": an empty slot of a cache array.
NoInst == 0

Handles == 0..MaxHandle
ObjHandles == 1..MaxHandle
CompIds == 0..MaxCompId
\* Component managers of the native runtime (index -> type name).
ManagerName == [m \in {0, 1} |-> IF m = 0 THEN "collision" ELSE "mesh"]
Managers == DOMAIN ManagerName
CompKeys == Managers \X CompIds

VARIABLES
    \* ---- host state (module-level variables of wonderland.ts)
    ObjectCache,        \* handle -> $Object instance (NoInst: hole)
    ComponentCache,     \* <<manager, id>> -> Component instance (NoInst: hole)
    scene,              \* the main Scene, created by init()
    _tempMem,           \* arena base address
    _tempMemSize,       \* arena capacity in bytes
    _tempMemFloat,      \* the five typed views over the arena
    _tempMemInt,
    _tempMemUint32,
    _tempMemUint16,
    _tempMemUint8,
    tempData,           \* what is staged in the arena (heap contents)
    accessor,           \* fields of the MeshAttributeAccessor in use
    _sceneLoadedCallback,   \* pending scene loads: sequence number -> record
    promises,           \* the promises Scene.append has returned
    materials,          \* the Material instances: their fields
    texs,               \* the Texture instances: their _id
    textures,           \* the `textures` object: texture id -> instance
    _images,            \* the image table: slot -> media element or null
    _imageIndex,        \* the Texture instances: their _imageIndex
    \* ---- host objects
    objs,               \* objs[i].objectId of $Object instance i
    comps,              \* comps[i]: fields of Component instance i
    \* ---- native runtime
    nLive,              \* live object handles
    nCompObj,           \* owning object of each component (0: slot free)
    nActive,            \* active components
    nMesh,              \* the mesh: its layout and vertex data
    nLoads,             \* loads the runtime works on: <<sequence number, promise>>
    nParams,            \* parameter values of the native materials
    nMeshMaterial,      \* material index of the native mesh component
    heap,               \* addresses of the allocated heap blocks
    \* ---- observation of the last call
    op,                 \* the API call made by the last step
    ret,                \* what it returned or threw
    calls,              \* the native calls it issued, in order
    \* ---- history
    hist,               \* one earlier wrap call, remembered until reset()
    lastSet             \* the accessor set() call just made, and its read-back

cacheVars == <<ObjectCache, ComponentCache, objs, comps>>
arenaVars == <<_tempMem, _tempMemSize, _tempMemFloat, _tempMemInt,
               _tempMemUint32, _tempMemUint16, _tempMemUint8, tempData>>
loadVars == <<_sceneLoadedCallback, promises, nLoads>>
imageVars == <<_images, _imageIndex>>
materialVars == <<materials, texs, textures, nParams, nMeshMaterial, imageVars>>
sceneVars == <<scene, accessor, nMesh, loadVars, materialVars>>
nativeVars == <<nLive, nCompObj, nActive>>
histVars == <<hist, lastSet>>
vars == <<ObjectCache, ComponentCache, scene, _tempMem, _tempMemSize,
          _tempMemFloat, _tempMemInt, _tempMemUint32, _tempMemUint16,
          _tempMemUint8, tempData, accessor, objs, comps, nLive, nCompObj,
          nActive, nMesh, heap, op, ret, calls, hist, lastSet,
          _sceneLoadedCallback, promises, nLoads, materials, texs, textures,
          nParams, nMeshMaterial, _images, _imageIndex>>

(***************************************************************************)
(* Observation helpers.                                                    *)
(***************************************************************************)
Call(f, args) == [f |-> f, args |-> args]
\* An API call.  wrap is the key its _wrapObject (<<h>>) or _wrapComponent
\* (<<manager, id>>) call was made for, <<>> when it made none; hit tells
\* whether that call found a cached wrapper, and was is the handle field
\* (objectId, _id) that wrapper held when it was found.
OpW(name, args, key, hit, was) ==
    [name |-> name, args |-> args, wrap |-> key, hit |-> hit, was |-> was]
Op(name, args) == OpW(name, args, <<>>, FALSE, JsUndefined)
Ok(v) == [err |-> "", val |-> v]
Throw(e) == [err |-> e, val |-> JsUndefined]
Bool(b) == IF b THEN 1 ELSE 0

EmptyObjectCache == [h \in Handles |-> NoInst]
EmptyComponentCache == [k \in CompKeys |-> NoInst]

\* The history variable: one direct _wrapObject / _wrapComponent call made
\* since the last reset() (any one: each may become the remembered one,
\* and stays it until another does or reset() runs), as the key it was
\* made for (<<h>> or <<manager, id>>), the instance it returned, and
\* whether init() has run since.
NoHist == [key |-> <<>>, inst |-> NoInst, reinit |-> FALSE]

\* The second history variable: the successful MeshAttributeAccessor.set(i, v)
\* made by the last step (stage "set"), or by the step before when the last
\* step was a successful get(i, out) with out.length = v.length (stage "got").
NoSet == [i |-> -1, v |-> <<>>, stage |-> ""]
Remember(key, inst) == {hist, [key |-> key, inst |-> inst, reinit |-> FALSE]}

(***************************************************************************)
(* The native allocator.  _malloc returns the address of a block that is   *)
(* not allocated, or 0 when it fails; addresses are 8-byte aligned.        *)
(***************************************************************************)
Addrs == {8 * k : k \in 1..MaxBlocks}
MallocResults(hp) == {0} \cup (Addrs \ hp)
HeapAfterMalloc(hp, p) == IF p = 0 THEN hp ELSE hp \cup {p}

(***************************************************************************)
(* The arena ("temp memory").  A typed view is the pair of its byte offset *)
(* in the heap and its length in elements.                                 *)
(***************************************************************************)
ChunkSize == 1024
InitialTempMem == 1024

View(base, len) == [byteOffset |-> ToInt32(base), length |-> len]
NullView == [byteOffset |-> JsNull, length |-> JsNull]

\* Heap contents the model keeps track of: the elements last staged in the
\* arena, with the address they were written at and their element type.
\* A block fresh from the allocator holds nothing that is read.
NoData == [base |-> JsNull, kind |-> "", elems |-> <<>>]
Staged(base, kind, elems) == [base |-> base, kind |-> kind, elems |-> elems]

\* The arena of the current state, with the heap it lives in and the
\* native calls issued so far by the running operation.
Arena(log) ==
    [mem |-> _tempMem, size |-> _tempMemSize, f32 |-> _tempMemFloat,
     i32 |-> _tempMemInt, u32 |-> _tempMemUint32, u16 |-> _tempMemUint16,
     u8 |-> _tempMemUint8, data |-> tempData, heap |-> heap, calls |-> log]

SetArena(A) ==
    /\ _tempMem' = A.mem
    /\ _tempMemSize' = A.size
    /\ _tempMemFloat' = A.f32
    /\ _tempMemInt' = A.i32
    /\ _tempMemUint32' = A.u32
    /\ _tempMemUint16' = A.u16
    /\ _tempMemUint8' = A.u8
    /\ tempData' = A.data
    /\ heap' = A.heap
    /\ calls' = A.calls

\* A variant that forgets to rebuild the uint16 view.
updateTempMemory_staleU16(A) ==
    [A EXCEPT !.f32 = View(A.mem, A.size \div 4),
              !.i32 = View(A.mem, A.size \div 4),
              !.u32 = View(A.mem, A.size \div 4),
              !.u8 = View(A.mem, A.size)]

\* updateTempMemory(): rebuild the five views over _tempMem.
updateTempMemory(A) ==
    [A EXCEPT !.f32 = View(A.mem, A.size \div 4),
              !.i32 = View(A.mem, A.size \div 4),
              !.u32 = View(A.mem, A.size \div 4),
              !.u16 = View(A.mem, A.size \div 2),
              !.u8 = View(A.mem, A.size)]

\* allocateTempMemory(size): the set of outcomes, one per allocator result.
allocateTempMemory(A, size) ==
    LET had == Truthy(A.mem)
        hp == IF had THEN A.heap \ {A.mem} ELSE A.heap
        log == IF had THEN Append(A.calls, Call("_free", <<A.mem>>))
                      ELSE A.calls
    IN  { updateTempMemory(
              [A EXCEPT !.size = size,
                        !.mem = p,
                        !.data = NoData,
                        !.heap = HeapAfterMalloc(hp, p),
                        !.calls = Append(log, Call("_malloc", <<size>>))]) :
          p \in MallocResults(hp) }

\* Math.ceil(size / 1024) * 1024
CeilToChunk(size) == ((size + ChunkSize - 1) \div ChunkSize) * ChunkSize

\* Variants: one that reallocates when the capacity equals the request,
\* one that resizes the arena to the request whenever it differs.
requireTempMem_strict(A, size) ==
    IF A.size > size THEN {A}
    ELSE allocateTempMemory(A, CeilToChunk(size))
requireTempMem_resize(A, size) ==
    IF A.size = CeilToChunk(size) THEN {A}
    ELSE allocateTempMemory(A, CeilToChunk(size))

\* requireTempMem(size)
requireTempMem(A, size) ==
    IF A.size >= size THEN {A}
    ELSE allocateTempMemory(A, CeilToChunk(size))

\* getTempBufferU8 / U16 / U32 / I32 / F32 (count): outcome and returned view.
BytesPerElement(kind) ==
    CASE kind = "u8" -> 1
      [] kind = "u16" -> 2
      [] OTHER -> 4
ViewKinds == {"u8", "u16", "u32", "i32", "f32"}
ViewOf(A, kind) ==
    CASE kind = "u8" -> A.u8
      [] kind = "u16" -> A.u16
      [] kind = "u32" -> A.u32
      [] kind = "i32" -> A.i32
      [] OTHER -> A.f32
getTempBuffer(A, kind, count) ==
    { [arena |-> B, view |-> ViewOf(B, kind)] :
      B \in requireTempMem(A, count * BytesPerElement(kind)) }

(***************************************************************************)
(* Materials and textures.  A JS value a material property is read as or   *)
(* assigned from is its type t and its content v: <<n>> for the number n,  *)
(* the numbers of an array, <<i>> for the i-th Texture or Material         *)
(* instance, <<byteOffset, count>> for a typed array on the heap.          *)
(***************************************************************************)
JsValue(t, v) == [t |-> t, v |-> v]
JsNum(n) == JsValue("number", <<n>>)
UndefinedValue == JsValue("undefined", <<>>)
NullValue == JsValue("null", <<>>)

MaterialParamType ==
    [UnsignedInt |-> 0, Int_ |-> 1, Float |-> 2, Sampler |-> 3, Font |-> 4]

\* _WL._materialDefinitions: the runtime's parameter tables.  The one
\* definition (index 0) of the model has a parameter of each kind the
\* handlers tell apart.
ParamNames == {"shininess", "diffuseColor", "diffuseTexture", "font"}
MaterialDefinition ==
    [prop \in ParamNames |->
        CASE prop = "shininess" ->
                [index |-> 0, type |-> [type |-> MaterialParamType.UnsignedInt,
                                        componentCount |-> 1]]
          [] prop = "diffuseColor" ->
                [index |-> 1, type |-> [type |-> MaterialParamType.Float,
                                        componentCount |-> 2]]
          [] prop = "diffuseTexture" ->
                [index |-> 2, type |-> [type |-> MaterialParamType.Sampler,
                                        componentCount |-> 1]]
          [] OTHER ->
                [index |-> 3, type |-> [type |-> MaterialParamType.Font,
                                        componentCount |-> 1]]]
\* A property name that is in no parameter table.
OwnNames == {"userData"}
PropNames == ParamNames \cup OwnNames

MaterialIds == 1..MaxMaterialId
TextureIds == 0..MaxTextureId
\* A native parameter: whether it is set, and its components.
Unset == [set |-> FALSE, v |-> <<>>]
NoParams == [id \in MaterialIds |-> [prop \in ParamNames |-> Unset]]
NoTextures == [id \in TextureIds |-> NoInst]
\* The per-instance fields a Material has besides _index and _definition.
NoFields == [prop \in PropNames |-> UndefinedValue]

(***************************************************************************)
(* Meshes.  The native runtime holds one mesh with one vertex attribute:   *)
(* attr is the MeshAttribute it is stored for (255: the mesh is not        *)
(* loaded), verts the vertex count, cc the attribute's component count,    *)
(* and data its verts * cc values in vertex order.                         *)
(***************************************************************************)
NoMesh == [attr |-> 255, verts |-> 0, cc |-> 0, data |-> <<>>]
\* No accessor obtained yet (the field defaults of the class).
NoAccessor ==
    [_attribute |-> -1, _offset |-> 0, _stride |-> 0, _formatSize |-> 0,
     _componentCount |-> 0, length |-> 0, kind |-> ""]

\* MeshAttribute.Position, .TextureCoordinate, .JointId
Position == 0
TextureCoordinate == 3
JointId == 5
\* What _wl_mesh_get_attribute reports for an attribute the mesh lacks.
AttributeAbsent == 255

\* The meshes the runtime may have loaded, all vertex data zero: positions
\* of every component count, joint ids of the largest.
Mesh(a, n, c) ==
    [attr |-> a, verts |-> n, cc |-> c, data |-> [j \in 1..(n * c) |-> 0]]
Meshes ==
    { Mesh(Position, NVerts, c) : c \in 1..MaxComponentCount }
    \cup { Mesh(JointId, NVerts, MaxComponentCount),
           Mesh(Position, BigVerts, MaxComponentCount) }

\* The element type the MeshAttributeAccessor constructor selects.
BufferKind(type) == IF type \in {5, 7} THEN "u16" ELSE "f32"

\* Storing a number into a Uint16Array / Float32Array element.
ToUint16(x) == x % 65536
ToFloat32(x) ==
    IF x <= 16777216 THEN x
    ELSE LET q == x \div 2
         IN  IF x % 2 = 0 THEN x
             ELSE IF q % 2 = 0 THEN 2 * q ELSE 2 * (q + 1)
ToKind(kind, x) == IF kind = "u16" THEN ToUint16(x) ELSE ToFloat32(x)

\* `length % componentCount !== 0` (x % 0 is NaN in JavaScript)
NotMultiple(n, c) == IF c = 0 THEN TRUE ELSE n % c # 0

\* Overwrite data[from + 1 .. from + Len(vals)] with vals.
Overlay(data, from, vals) ==
    [j \in 1..Len(data) |->
        IF j > from /\ j <= from + Len(vals) THEN vals[j - from] ELSE data[j]]

(***************************************************************************)
(* State after the module is loaded, before init().                        *)
(***************************************************************************)
Init ==
    /\ ObjectCache = EmptyObjectCache
    /\ ComponentCache = EmptyComponentCache
    /\ scene = "undefined"
    /\ _tempMem = JsNull
    /\ _tempMemSize = 0
    /\ _tempMemFloat = NullView
    /\ _tempMemInt = NullView
    /\ _tempMemUint32 = NullView
    /\ _tempMemUint16 = NullView
    /\ _tempMemUint8 = NullView
    /\ tempData = NoData
    /\ accessor = NoAccessor
    /\ nMesh = NoMesh
    /\ objs = <<>>
    /\ comps = <<>>
    /\ nLive = {}
    /\ nCompObj = [k \in CompKeys |-> 0]
    /\ nActive = {}
    /\ heap = {}
    /\ op = Op("load", <<>>)
    /\ ret = Ok(JsUndefined)
    /\ calls = <<>>
    /\ hist = NoHist
    /\ lastSet = NoSet
    /\ _sceneLoadedCallback = <<>>
    /\ promises = <<>>
    /\ nLoads = {}
    /\ materials = <<>>
    /\ texs = <<>>
    /\ textures = NoTextures
    /\ _images = <<>>
    /\ _imageIndex = <<>>
    /\ nParams = NoParams
    /\ nMeshMaterial = 0

\* States right after the engine has called init(), with mesh loaded and
\* the native mesh component using material `material` (0: none).
LoadedArena ==
    [mem |-> JsNull, size |-> 0, f32 |-> NullView, i32 |-> NullView,
     u32 |-> NullView, u16 |-> NullView, u8 |-> NullView, data |-> NoData,
     heap |-> {}, calls |-> <<>>]
Ready(A, mesh, material) ==
    /\ ObjectCache = EmptyObjectCache
    /\ ComponentCache = EmptyComponentCache
    /\ scene = "Scene"
    /\ _tempMem = A.mem
    /\ _tempMemSize = A.size
    /\ _tempMemFloat = A.f32
    /\ _tempMemInt = A.i32
    /\ _tempMemUint32 = A.u32
    /\ _tempMemUint16 = A.u16
    /\ _tempMemUint8 = A.u8
    /\ tempData = A.data
    /\ accessor = NoAccessor
    /\ nMesh = mesh
    /\ objs = <<>>
    /\ comps = <<>>
    /\ nLive = {}
    /\ nCompObj = [k \in CompKeys |-> 0]
    /\ nActive = {}
    /\ heap = A.heap
    /\ op = Op("init", <<>>)
    /\ ret = Ok(JsUndefined)
    /\ calls = A.calls
    /\ hist = NoHist
    /\ lastSet = NoSet
    /\ _sceneLoadedCallback = <<>>
    /\ promises = <<>>
    /\ nLoads = {}
    /\ materials = <<>>
    /\ texs = <<>>
    /\ textures = NoTextures
    /\ _images = <<>>
    /\ _imageIndex = <<>>
    /\ nParams = NoParams
    /\ nMeshMaterial = material
InitReady ==
    \E A \in allocateTempMemory(LoadedArena, InitialTempMem) :
        Ready(A, NoMesh, 0)
\* An empty scene with the arena in the first block of the heap.
InitFirstBlock ==
    \E A \in allocateTempMemory(LoadedArena, InitialTempMem) :
        A.mem = 8 /\ Ready(A, NoMesh, 0)
\* A scene whose mesh component has the native material 1, with the arena
\* in the first block of the heap.
InitMaterial ==
    \E A \in allocateTempMemory(LoadedArena, InitialTempMem) :
        A.mem = 8 /\ Ready(A, NoMesh, 1)
InitMesh ==
    \E A \in allocateTempMemory(LoadedArena, InitialTempMem), mesh \in Meshes :
        Ready(A, mesh, 0)

(***************************************************************************)
(* init() and reset().                                                     *)
(***************************************************************************)
\* (The Scene's ray-hit block is allocated once per Scene and never resized
\* or freed; it lies outside the blocks `heap` keeps track of.)
ApiInit ==
    \E A \in allocateTempMemory(Arena(<<>>), InitialTempMem) :
        /\ scene' = "Scene"
        /\ ComponentCache' = EmptyComponentCache
        /\ ObjectCache' = EmptyObjectCache
        /\ SetArena(A)
        /\ op' = Op("init", <<>>)
        /\ ret' = Ok(JsUndefined)
        /\ hist' = [hist EXCEPT !.reinit = (hist.key # <<>>)]
        /\ UNCHANGED lastSet
        /\ UNCHANGED <<accessor, nMesh, loadVars, materialVars, objs, comps,
                       nativeVars>>

\* reset() that leaves the pending scene loads in their table.
ApiReset_keepLoads ==
    /\ ComponentCache' = EmptyComponentCache
    /\ ObjectCache' = EmptyObjectCache
    /\ op' = Op("reset", <<>>)
    /\ ret' = Ok(JsUndefined)
    /\ calls' = <<>>
    /\ UNCHANGED _sceneLoadedCallback
    /\ _images' = <<>>
    /\ hist' = NoHist
    /\ UNCHANGED lastSet
    /\ UNCHANGED <<scene, materials, texs, textures, nParams, nMeshMaterial,
                   _imageIndex, accessor, nMesh, promises, nLoads,
                   arenaVars, heap, objs, comps, nativeVars>>

ApiReset ==
    /\ ComponentCache' = EmptyComponentCache
    /\ ObjectCache' = EmptyObjectCache
    /\ op' = Op("reset", <<>>)
    /\ ret' = Ok(JsUndefined)
    /\ calls' = <<>>
    /\ _sceneLoadedCallback' = <<>>
    /\ _images' = <<>>
    /\ hist' = NoHist
    /\ UNCHANGED lastSet
    /\ UNCHANGED <<scene, materials, texs, textures, nParams, nMeshMaterial,
                   _imageIndex, accessor, nMesh, promises, nLoads,
                   arenaVars, heap, objs, comps, nativeVars>>

(***************************************************************************)
(* Direct uses of the arena.                                               *)
(***************************************************************************)
ReqSizes == {n \in 0..(MaxChunks * ChunkSize) :
                n % ChunkSize \in {0, 1, 476, 1023}}
ReqCounts == {0, 1, 256, 257, 512, 513}

RequireTempMemCall(n) ==
    \E A \in requireTempMem(Arena(<<>>), n) :
        /\ SetArena(A)
        /\ op' = Op("requireTempMem", <<n>>)
        /\ ret' = Ok(JsUndefined)
        /\ UNCHANGED <<sceneVars, cacheVars, nativeVars, histVars>>

GetTempBufferCall(kind, count) ==
    /\ count * BytesPerElement(kind) <= MaxChunks * ChunkSize
    /\ \E R \in getTempBuffer(Arena(<<>>), kind, count) :
        /\ SetArena(R.arena)
        /\ op' = Op(kind, <<count>>)
        /\ ret' = [err |-> "", val |-> R.view]
        /\ UNCHANGED <<sceneVars, cacheVars, nativeVars, histVars>>

UpdateTempMemoryCall ==
    /\ SetArena(updateTempMemory(Arena(<<>>)))
    /\ op' = Op("updateTempMemory", <<>>)
    /\ ret' = Ok(JsUndefined)
    /\ UNCHANGED <<sceneVars, cacheVars, nativeVars, histVars>>

NextArena ==
    \/ ApiInit
    \/ ApiReset
    \/ \E n \in ReqSizes : RequireTempMemCall(n)
    \/ \E kind \in ViewKinds, count \in ReqCounts : GetTempBufferCall(kind, count)
    \/ UpdateTempMemoryCall

SpecArena == Init /\ [][NextArena]_vars

(***************************************************************************)
(* The identity caches.                                                    *)
(***************************************************************************)
\* Variants: one that constructs a wrapper on every call, one that leaves
\* the objectId of a cached wrapper as it finds it.
_wrapObject_fresh(cache, os, objectId) ==
    [cache |-> [cache EXCEPT ![objectId] = Len(os) + 1],
     objs |-> Append(os, objectId),
     ret |-> Len(os) + 1]
_wrapObject_keep(cache, os, objectId) ==
    LET hit == cache[objectId] # NoInst
        o == IF hit THEN cache[objectId] ELSE Len(os) + 1
    IN  [cache |-> [cache EXCEPT ![objectId] = o],
         objs |-> IF hit THEN os ELSE Append(os, objectId),
         ret |-> o]

\* _wrapObject(objectId): the cache, the $Object instances and the
\* instance returned.
_wrapObject(cache, os, objectId) ==
    LET hit == cache[objectId] # NoInst
        o == IF hit THEN cache[objectId] ELSE Len(os) + 1
        os1 == IF hit THEN os ELSE Append(os, objectId)
    IN  [cache |-> [cache EXCEPT ![objectId] = o],
         objs |-> [os1 EXCEPT ![o] = objectId],
         ret |-> o]

\* new Component(managerIndex, id), as one of the native wrapper classes.
NewComponent(type, managerIndex, id) ==
    [_manager |-> managerIndex, _id |-> id, _object |-> JsNull, type |-> type]

\* A variant that passes manager and id to the constructor the wrong way
\* round.
_wrapComponent_swapped(cache, cs, type, componentType, componentId) ==
    IF componentId < 0 THEN [cache |-> cache, comps |-> cs, ret |-> JsNull]
    ELSE IF cache[<<componentType, componentId>>] # NoInst
    THEN [cache |-> cache, comps |-> cs,
          ret |-> cache[<<componentType, componentId>>]]
    ELSE [cache |-> [cache EXCEPT ![<<componentType, componentId>>] = Len(cs) + 1],
          comps |-> Append(cs, NewComponent(type, componentId, componentType)),
          ret |-> Len(cs) + 1]

\* _wrapComponent(type, componentType, componentId)
_wrapComponent(cache, cs, type, componentType, componentId) ==
    IF componentId < 0 THEN [cache |-> cache, comps |-> cs, ret |-> JsNull]
    ELSE IF cache[<<componentType, componentId>>] # NoInst
    THEN [cache |-> cache, comps |-> cs,
          ret |-> cache[<<componentType, componentId>>]]
    ELSE [cache |-> [cache EXCEPT ![<<componentType, componentId>>] = Len(cs) + 1],
          comps |-> Append(cs, NewComponent(type, componentType, componentId)),
          ret |-> Len(cs) + 1]

\* What a wrap call finds in the cache.
ObjHit(h) == ObjectCache[h] # NoInst
ObjWas(h) == IF ObjHit(h) THEN objs[ObjectCache[h]] ELSE JsUndefined
CompHit(m, id) == IF id < 0 THEN FALSE ELSE ComponentCache[<<m, id>>] # NoInst
CompWas(m, id) ==
    IF CompHit(m, id) THEN comps[ComponentCache[<<m, id>>]]._id ELSE JsUndefined

\* The host constructs at most MaxInst wrappers.
CanWrapObject(h) ==
    IF ObjectCache[h] # NoInst THEN TRUE ELSE Len(objs) + Len(comps) < MaxInst
CanWrapComponent(m, id) ==
    IF id < 0 THEN TRUE
    ELSE IF ComponentCache[<<m, id>>] # NoInst THEN TRUE
    ELSE Len(objs) + Len(comps) < MaxInst

(***************************************************************************)
(* The native runtime, as far as the binding relies on it: it issues       *)
(* handles that are not in use, removes an object together with its        *)
(* components, and ignores calls on handles that are not live.             *)
(***************************************************************************)
CompLive(k) == k \in CompKeys /\ nCompObj[k] # 0

\* _wl_scene_remove_object(h)
NativeRemoveObject(h) ==
    LET gone == IF h \in nLive THEN {h} ELSE {}
        dead == {k \in CompKeys : nCompObj[k] \in gone}
    IN  /\ nLive' = nLive \ gone
        /\ nCompObj' = [k \in CompKeys |-> IF k \in dead THEN 0 ELSE nCompObj[k]]
        /\ nActive' = nActive \ dead

\* _wl_component_setActive(m, id, active), as a new value of nActive
\* (own: the owners of the components when the call is made)
NativeSetActive(own, act, k, b) ==
    IF k \notin CompKeys \/ own[k] = 0 THEN act
    ELSE IF b THEN act \cup {k} ELSE act \ {k}

\* _wl_get_component_id(objectId, manager, index): the index-th component
\* of that manager on the object, -1 when there is none.
RECURSIVE NthSmallest(_, _)
NthSmallest(S, n) ==
    IF S = {} THEN -1
    ELSE LET lo == CHOOSE x \in S : \A y \in S : x <= y
         IN  IF n = 0 THEN lo ELSE NthSmallest(S \ {lo}, n - 1)
NativeComponentId(h, m, index) ==
    IF h \notin nLive THEN -1
    ELSE NthSmallest({id \in CompIds : nCompObj[<<m, id>>] = h}, index)

(***************************************************************************)
(* Node wrappers.                                                          *)
(***************************************************************************)
ObjInsts == 1..Len(objs)
CompInsts == 1..Len(comps)

\* _wrapObject(h) called directly.
WrapObjectCall(h) ==
    /\ CanWrapObject(h)
    /\ LET W == _wrapObject(ObjectCache, objs, h)
       IN  /\ ObjectCache' = W.cache
           /\ objs' = W.objs
           /\ op' = OpW("_wrapObject", <<h>>, <<h>>, ObjHit(h), ObjWas(h))
           /\ ret' = Ok(W.ret)
           /\ calls' = <<>>
           /\ hist' \in Remember(<<h>>, W.ret)
           /\ UNCHANGED lastSet
    /\ UNCHANGED <<ComponentCache, comps, sceneVars, arenaVars, heap, nativeVars>>

\* Scene.addObject(parent); p = 0 stands for a null parent.
SceneAddObject(p) ==
    LET parentId == IF p # 0 THEN objs[p] ELSE 0
        pid == ToInt32(parentId)
    IN  \E h \in ObjHandles \ nLive :
            /\ CanWrapObject(h)
            /\ nLive' = nLive \cup {h}
            /\ LET W == _wrapObject(ObjectCache, objs, h)
               IN  /\ ObjectCache' = W.cache
                   /\ objs' = W.objs
                   /\ op' = OpW("Scene.addObject", <<p>>, <<h>>, ObjHit(h), ObjWas(h))
                   /\ ret' = Ok(W.ret)
                   /\ calls' = <<Call("_wl_scene_add_object", <<pid>>)>>
                   /\ hist' = hist
                   /\ UNCHANGED lastSet
            /\ UNCHANGED <<ComponentCache, comps, sceneVars, arenaVars, heap,
                           nCompObj, nActive>>

\* $Object.destroy() of wrapper o.
ObjectDestroy(o) ==
    /\ calls' = <<Call("_wl_scene_remove_object", <<ToInt32(objs[o])>>)>>
    /\ NativeRemoveObject(ToInt32(objs[o]))
    /\ objs' = [objs EXCEPT ![o] = JsNull]
    /\ op' = Op("$Object.destroy", <<o>>)
    /\ ret' = Ok(JsUndefined)
    /\ UNCHANGED <<ObjectCache, ComponentCache, comps, sceneVars, arenaVars, heap,
                   histVars>>

(***************************************************************************)
(* Component wrappers.                                                     *)
(***************************************************************************)
\* The (manager, id) a wrapper's fields address in a native call.
NativeKey(c) == <<ToInt32(c._manager), ToInt32(c._id)>>

\* _wrapComponent(type, m, id) called directly.
WrapComponentCall(m, id) ==
    /\ CanWrapComponent(m, id)
    /\ LET W == _wrapComponent(ComponentCache, comps, ManagerName[m], m, id)
       IN  /\ ComponentCache' = W.cache
           /\ comps' = W.comps
           /\ op' = OpW("_wrapComponent", <<m, id>>, <<m, id>>,
                          CompHit(m, id), CompWas(m, id))
           /\ ret' = Ok(W.ret)
           /\ calls' = <<>>
           /\ hist' \in (IF id < 0 THEN {hist} ELSE Remember(<<m, id>>, W.ret))
           /\ UNCHANGED lastSet
    /\ UNCHANGED <<ObjectCache, objs, sceneVars, arenaVars, heap, nativeVars>>

\* $Object.addComponent(type) on wrapper o, for the native type of manager
\* m and no params: add, wrap, then activate.  (The block _typeIndexFor
\* allocates for the type name is freed before it returns and is not one
\* of the blocks `heap` keeps track of.)
ObjectAddComponent(o, m) ==
    LET h == ToInt32(objs[o])
    IN  IF h \notin nLive
        THEN \* the native call returns -1, _wrapComponent returns null and
             \* `component.active = true` throws
             /\ calls' = <<Call("_wl_object_add_component", <<h, m>>)>>
             /\ op' = OpW("$Object.addComponent", <<o, m>>, <<m, -1>>,
                        FALSE, JsUndefined)
             /\ ret' = Throw("TypeError")
             /\ UNCHANGED <<cacheVars, sceneVars, arenaVars, heap, nativeVars,
                            histVars>>
        ELSE \E id \in {i \in CompIds : nCompObj[<<m, i>>] = 0} :
             /\ CanWrapComponent(m, id)
             /\ LET W == _wrapComponent(ComponentCache, comps,
                                        ManagerName[m], m, id)
                    k == NativeKey(W.comps[W.ret])
                    own == [nCompObj EXCEPT ![<<m, id>>] = h]
                IN  /\ ComponentCache' = W.cache
                    /\ comps' = W.comps
                    /\ nCompObj' = own
                    /\ nActive' = NativeSetActive(own, nActive, k, TRUE)
                    /\ calls' = <<Call("_wl_object_add_component", <<h, m>>),
                                  Call("_wl_component_setActive",
                                       <<k[1], k[2], 1>>)>>
                    /\ op' = OpW("$Object.addComponent", <<o, m>>, <<m, id>>,
                          CompHit(m, id), CompWas(m, id))
                    /\ ret' = Ok(W.ret)
                    /\ hist' = hist
                    /\ UNCHANGED lastSet
             /\ UNCHANGED <<ObjectCache, objs, sceneVars, arenaVars, heap, nLive>>

\* $Object.getComponent(type, index) on wrapper o, for a native type.
ObjectGetComponent(o, m, index) ==
    LET h == ToInt32(objs[o])
        id == NativeComponentId(h, m, index)
    IN  /\ CanWrapComponent(m, id)
        /\ LET W == _wrapComponent(ComponentCache, comps, ManagerName[m], m, id)
           IN  /\ ComponentCache' = W.cache
               /\ comps' = W.comps
               /\ op' = OpW("$Object.getComponent", <<o, m, index>>, <<m, id>>,
                          CompHit(m, id), CompWas(m, id))
               /\ ret' = Ok(W.ret)
               /\ calls' = <<Call("_wl_get_component_id", <<h, m, index>>)>>
               /\ hist' = hist
               /\ UNCHANGED lastSet
        /\ UNCHANGED <<ObjectCache, objs, sceneVars, arenaVars, heap, nativeVars>>

\* Component.object (getter) of wrapper c.
ComponentObject(c) ==
    IF Truthy(comps[c]._object)
    THEN /\ op' = Op("Component.object", <<c>>)
         /\ ret' = Ok(comps[c]._object)
         /\ calls' = <<>>
         /\ UNCHANGED <<cacheVars, sceneVars, arenaVars, heap, nativeVars, histVars>>
    ELSE LET k == NativeKey(comps[c])
             objectId == IF CompLive(k) THEN nCompObj[k] ELSE 0
         IN  /\ CanWrapObject(objectId)
             /\ LET W == _wrapObject(ObjectCache, objs, objectId)
                IN  /\ ObjectCache' = W.cache
                    /\ objs' = W.objs
                    /\ comps' = [comps EXCEPT ![c]._object = W.ret]
                    /\ op' = OpW("Component.object", <<c>>, <<objectId>>,
                              ObjHit(objectId), ObjWas(objectId))
                    /\ ret' = Ok(W.ret)
                    /\ calls' = <<Call("_wl_component_get_object", k)>>
                    /\ hist' = hist
                    /\ UNCHANGED lastSet
             /\ UNCHANGED <<ComponentCache, sceneVars, arenaVars, heap, nativeVars>>

\* A setter that skips the native call when the component is in the state
\* asked for already.
ComponentSetActive_skip(c, b) ==
    LET k == NativeKey(comps[c])
    IN  /\ calls' = IF (k \in nActive) = b THEN <<>>
                    ELSE <<Call("_wl_component_setActive",
                                <<k[1], k[2], Bool(b)>>)>>
        /\ nActive' = NativeSetActive(nCompObj, nActive, k, b)
        /\ op' = Op("Component.active=", <<c, Bool(b)>>)
        /\ ret' = Ok(JsUndefined)
        /\ UNCHANGED <<cacheVars, sceneVars, arenaVars, heap, nLive,
                       nCompObj, histVars>>

\* Component.active = b on wrapper c.
ComponentSetActive(c, b) ==
    LET k == NativeKey(comps[c])
    IN  /\ calls' = <<Call("_wl_component_setActive", <<k[1], k[2], Bool(b)>>)>>
        /\ nActive' = NativeSetActive(nCompObj, nActive, k, b)
        /\ op' = Op("Component.active=", <<c, Bool(b)>>)
        /\ ret' = Ok(JsUndefined)
        /\ UNCHANGED <<cacheVars, sceneVars, arenaVars, heap, nLive,
                       nCompObj, histVars>>

\* Component.active (getter) of wrapper c.
ComponentGetActive(c) ==
    LET k == NativeKey(comps[c])
    IN  /\ calls' = <<Call("_wl_component_isActive", k)>>
        /\ op' = Op("Component.active", <<c>>)
        /\ ret' = Ok(Bool(k \in nActive))
        /\ UNCHANGED <<cacheVars, sceneVars, arenaVars, heap, nativeVars, histVars>>

\* A variant that leaves _manager and _id as they are.
ComponentDestroy_keep(c) ==
    LET k == NativeKey(comps[c])
    IN  /\ calls' = <<Call("_wl_component_remove", k)>>
        /\ nCompObj' = [x \in CompKeys |-> IF x = k THEN 0 ELSE nCompObj[x]]
        /\ nActive' = nActive \ {k}
        /\ op' = Op("Component.destroy", <<c>>)
        /\ ret' = Ok(JsUndefined)
        /\ UNCHANGED <<cacheVars, sceneVars, arenaVars, heap, nLive, histVars>>

\* Component.destroy() of wrapper c.
ComponentDestroy(c) ==
    LET k == NativeKey(comps[c])
    IN  /\ calls' = <<Call("_wl_component_remove", k)>>
        /\ nCompObj' = [x \in CompKeys |-> IF x = k THEN 0 ELSE nCompObj[x]]
        /\ nActive' = nActive \ {k}
        /\ comps' = [comps EXCEPT ![c]._manager = JsUndefined,
                                  ![c]._id = JsUndefined]
        /\ op' = Op("Component.destroy", <<c>>)
        /\ ret' = Ok(JsUndefined)
        /\ UNCHANGED <<ObjectCache, ComponentCache, objs, sceneVars, arenaVars,
                       heap, nLive, histVars>>

\* x == y of two values that are numbers, null or undefined: null and
\* undefined equal each other and nothing else.
LooseEq(x, y) ==
    IF x \in {JsNull, JsUndefined} THEN y \in {JsNull, JsUndefined} ELSE x = y

\* Component.equals(otherComponent) of wrapper a; b = 0 stands for a null or
\* undefined argument.
ComponentEquals(a, b) ==
    /\ op' = Op("Component.equals", <<a, b>>)
    /\ ret' = IF b = 0 THEN Ok(Bool(FALSE))
              ELSE Ok(Bool(/\ LooseEq(comps[a]._manager, comps[b]._manager)
                           /\ LooseEq(comps[a]._id, comps[b]._id)))
    /\ calls' = <<>>
    /\ UNCHANGED <<cacheVars, sceneVars, arenaVars, heap, nativeVars, histVars>>

\* $Object.equals(otherObject) of wrapper a; b = 0 stands for a missing
\* argument.
ObjectEquals(a, b) ==
    /\ op' = Op("$Object.equals", <<a, b>>)
    /\ ret' = IF b = 0 THEN Ok(Bool(FALSE))
              ELSE Ok(Bool(LooseEq(objs[a], objs[b])))
    /\ calls' = <<>>
    /\ UNCHANGED <<cacheVars, sceneVars, arenaVars, heap, nativeVars, histVars>>

(***************************************************************************)
(* The two caches under direct wrap calls, init() and reset().             *)
(***************************************************************************)
NextWrap ==
    \/ ApiInit
    \/ ApiReset
    \/ \E h \in Handles : WrapObjectCall(h)
    \/ \E m \in Managers, id \in {-1} \cup CompIds : WrapComponentCall(m, id)

SpecWrap == Init /\ [][NextWrap]_vars

(***************************************************************************)
(* Node wrappers against a native scene that issues and reuses handles.    *)
(***************************************************************************)
NextNode ==
    \/ ApiReset
    \/ \E h \in Handles : WrapObjectCall(h)
    \/ \E p \in {0} \cup ObjInsts : SceneAddObject(p)
    \/ \E o \in ObjInsts : ObjectDestroy(o)

SpecNode == InitReady /\ [][NextNode]_vars

(***************************************************************************)
(* Component wrappers against native component managers that issue and     *)
(* reuse component ids.                                                    *)
(***************************************************************************)
NextComp ==
    \/ SceneAddObject(0)
    \/ \E o \in ObjInsts, m \in Managers : ObjectAddComponent(o, m)
    \/ \E o \in ObjInsts, m \in Managers : ObjectGetComponent(o, m, 0)
    \/ \E c \in CompInsts, b \in BOOLEAN : ComponentSetActive(c, b)
    \/ \E c \in CompInsts : ComponentDestroy(c)
    \/ \E o \in ObjInsts : ObjectDestroy(o)

SpecComp == InitReady /\ [][NextComp]_vars

\* What wrappers tell about their components: equality and the active
\* state, while components are added and destroyed.
NextState ==
    \/ SceneAddObject(0)
    \/ \E o \in ObjInsts, m \in Managers : ObjectAddComponent(o, m)
    \/ \E c \in CompInsts, b \in BOOLEAN : ComponentSetActive(c, b)
    \/ \E c \in CompInsts : ComponentGetActive(c)
    \/ \E c \in CompInsts : ComponentDestroy(c)
    \/ \E a \in CompInsts, b \in {0} \cup CompInsts : ComponentEquals(a, b)
    \/ \E a \in ObjInsts, b \in {0} \cup ObjInsts : ObjectEquals(a, b)

SpecState == InitReady /\ [][NextState]_vars

(***************************************************************************)
(* Mesh attribute access.                                                  *)
(***************************************************************************)
\* Mesh.attribute(attr)
MeshAttributeCall(attr) ==
    LET found == attr = nMesh.attr
        bytes == nMesh.cc * BytesPerElement(BufferKind(attr))
        \* _wl_mesh_get_attribute writes five uint32 at _tempMem
        written == IF found THEN <<attr, 0, bytes, bytes, nMesh.cc>>
                   ELSE <<AttributeAbsent, 0, 0, 0, 0>>
        at == ToInt32(_tempMem)
        u == written
    IN  /\ _tempMemUint32.byteOffset = at
        /\ tempData' = Staged(at, "u32", written)
        /\ calls' = <<Call("_wl_mesh_get_attribute", <<0, attr, at>>)>>
               \o (IF found THEN <<Call("_wl_mesh_get_vertexCount", <<0>>)>>
                   ELSE <<>>)
        /\ accessor' =
               IF u[1] = 255 THEN accessor
               ELSE [_attribute |-> u[1], _offset |-> u[2], _stride |-> u[3],
                     _formatSize |-> u[4], _componentCount |-> u[5],
                     length |-> nMesh.verts, kind |-> BufferKind(attr)]
        /\ op' = Op("Mesh.attribute", <<attr>>)
        /\ ret' = Ok(IF u[1] = 255 THEN JsNull ELSE 1)
        /\ UNCHANGED <<_tempMem, _tempMemSize, _tempMemFloat, _tempMemInt,
                       _tempMemUint32, _tempMemUint16, _tempMemUint8, heap,
                       scene, materialVars, nMesh, loadVars, cacheVars,
                       nativeVars, hist>>
        /\ lastSet' = NoSet

\* The failed call: `throw new Error(...)`, nothing else done.
AccessorThrow(name, args) ==
    /\ op' = Op(name, args)
    /\ ret' = Throw("Error")
    /\ calls' = <<>>
    /\ lastSet' = NoSet
    /\ UNCHANGED <<sceneVars, arenaVars, heap, cacheVars, nativeVars, hist>>

\* A variant of get that acquires the staging buffer before it validates
\* the length.
AccessorGet_late(index, n) ==
    /\ accessor # NoAccessor
    /\ \E R \in getTempBuffer(Arena(<<>>), accessor.kind, n) :
         /\ SetArena(R.arena)
         /\ NotMultiple(n, accessor._componentCount)
         /\ op' = Op("MeshAttributeAccessor.get", <<index, n>>)
         /\ ret' = Throw("Error")
         /\ lastSet' = NoSet
         /\ UNCHANGED <<sceneVars, cacheVars, nativeVars, hist>>

\* MeshAttributeAccessor.get(index, out) with out.length = n: the values
\* copied into out are returned.
AccessorGet(index, n) ==
    /\ accessor # NoAccessor
    /\ LET a == accessor
           bytesPerElt == BytesPerElement(a.kind)
           first == (a._offset + index * a._stride) \div bytesPerElt
       IN  IF NotMultiple(n, a._componentCount)
           THEN AccessorThrow("MeshAttributeAccessor.get", <<index, n>>)
           ELSE /\ first + n <= Len(nMesh.data)
                /\ \E R \in getTempBuffer(Arena(<<>>), a.kind, n) :
                     LET dest == R.view
                         vals == SubSeq(nMesh.data, first + 1, first + n)
                         call == Call("_wl_mesh_get_attribute_values",
                                      <<a._attribute, a._formatSize,
                                        a._offset + index * a._stride,
                                        a._stride,
                                        a._componentCount * bytesPerElt,
                                        dest.byteOffset, bytesPerElt * n>>)
                     IN  /\ SetArena([R.arena EXCEPT
                                !.data = Staged(dest.byteOffset, a.kind, vals),
                                !.calls = Append(@, call)])
                         /\ ret' = Ok(vals)
                /\ op' = Op("MeshAttributeAccessor.get", <<index, n>>)
                /\ lastSet' =
                     IF /\ lastSet.stage = "set"
                        /\ lastSet.i = index
                        /\ Len(lastSet.v) = n
                     THEN [lastSet EXCEPT !.stage = "got"]
                     ELSE NoSet
                /\ UNCHANGED <<sceneVars, cacheVars, nativeVars, hist>>

\* A variant of set that writes at vertex 0 whatever the index.
AccessorSet_atZero(i, v) ==
    /\ accessor # NoAccessor
    /\ LET a == accessor
           n == Len(v.elems)
           bytesPerElt == BytesPerElement(a.kind)
           first == a._offset \div bytesPerElt
       IN  IF NotMultiple(n, a._componentCount)
           THEN AccessorThrow("MeshAttributeAccessor.set", <<i, n>>)
           ELSE /\ first + n <= Len(nMesh.data)
                /\ \E R \in (IF v.heap THEN {[arena |-> Arena(<<>>), view |-> v]}
                              ELSE getTempBuffer(Arena(<<>>), a.kind, n)) :
                     LET src == R.view
                         vals == IF v.heap THEN v.elems
                                 ELSE [j \in 1..n |-> ToKind(a.kind, v.elems[j])]
                         call == Call("_wl_mesh_set_attribute_values",
                                      <<a._attribute,
                                        a._componentCount * bytesPerElt,
                                        src.byteOffset, bytesPerElt * n,
                                        a._formatSize,
                                        a._offset + i * a._stride,
                                        a._stride>>)
                     IN  /\ SetArena([R.arena EXCEPT
                                !.data = IF v.heap THEN @
                                         ELSE Staged(src.byteOffset, a.kind, vals),
                                !.calls = Append(@, call)])
                         /\ nMesh' = [nMesh EXCEPT
                                         !.data = Overlay(@, first, vals)]
                /\ op' = Op("MeshAttributeAccessor.set", <<i, n>>)
                /\ ret' = Ok(JsUndefined)
                /\ lastSet' = [i |-> i, v |-> v.elems, stage |-> "set"]
                /\ UNCHANGED <<scene, materialVars, accessor, loadVars,
                               cacheVars, nativeVars, hist>>

\* MeshAttributeAccessor.set(i, v).  v.heap tells whether v is a view on
\* the WebAssembly heap (at v.byteOffset) or an array of the host.
AccessorSet(i, v) ==
    /\ accessor # NoAccessor
    /\ LET a == accessor
           n == Len(v.elems)
           bytesPerElt == BytesPerElement(a.kind)
           first == (a._offset + i * a._stride) \div bytesPerElt
       IN  IF NotMultiple(n, a._componentCount)
           THEN AccessorThrow("MeshAttributeAccessor.set", <<i, n>>)
           ELSE /\ first + n <= Len(nMesh.data)
                /\ \E R \in (IF v.heap THEN {[arena |-> Arena(<<>>), view |-> v]}
                              ELSE getTempBuffer(Arena(<<>>), a.kind, n)) :
                     LET src == R.view
                         vals == IF v.heap THEN v.elems
                                 ELSE [j \in 1..n |-> ToKind(a.kind, v.elems[j])]
                         call == Call("_wl_mesh_set_attribute_values",
                                      <<a._attribute,
                                        a._componentCount * bytesPerElt,
                                        src.byteOffset, bytesPerElt * n,
                                        a._formatSize,
                                        a._offset + i * a._stride,
                                        a._stride>>)
                     IN  /\ SetArena([R.arena EXCEPT
                                !.data = IF v.heap THEN @
                                         ELSE Staged(src.byteOffset, a.kind, vals),
                                !.calls = Append(@, call)])
                         /\ nMesh' = [nMesh EXCEPT
                                         !.data = Overlay(@, first, vals)]
                /\ op' = Op("MeshAttributeAccessor.set", <<i, n>>)
                /\ ret' = Ok(JsUndefined)
                /\ lastSet' = [i |-> i, v |-> v.elems, stage |-> "set"]
                /\ UNCHANGED <<scene, materialVars, accessor, loadVars,
                               cacheVars, nativeVars, hist>>

\* Inputs of the mesh calls.
Lengths == {0, 1, 2, 3, 4, 257, 260}
\* An array of the host holding n numbers: the same vector for every vertex
\* of an attribute with c components, with numbers that a Uint16Array or a
\* Float32Array cannot hold among them.
ComponentValue == <<1, 65537, 16777217, 2>>
HostArray(n, c) ==
    [heap |-> FALSE, byteOffset |-> 0,
     elems |-> [j \in 1..n |->
                   IF c = 0 THEN 1
                   ELSE ComponentValue[1 + (((j - 1) % c) % 4)]]]
\* The elements staged in the arena, seen through the accessor's view.
HeapArrays ==
    IF accessor # NoAccessor /\ tempData.kind = accessor.kind
    THEN {[heap |-> TRUE, byteOffset |-> tempData.base, elems |-> tempData.elems]}
    ELSE {}

NextMesh ==
    \/ \E attr \in {Position, TextureCoordinate, JointId} : MeshAttributeCall(attr)
    \/ \E index \in {0, 1}, n \in Lengths : AccessorGet(index, n)
    \/ \E i \in {0, 1}, n \in Lengths :
           AccessorSet(i, HostArray(n, accessor._componentCount))
    \/ \E i \in {0, 1}, v \in HeapArrays : AccessorSet(i, v)

SpecMesh == InitMesh /\ [][NextMesh]_vars

(***************************************************************************)
(* Properties of the identity caches.                                      *)
(***************************************************************************)
\* The instances of the kind a wrap key addresses.
InstancesOf(key) == IF Len(key) = 1 THEN Len(objs) ELSE Len(comps)

\* C1, as stated: with no reset() in between, a wrap call for the key of an
\* earlier wrap call (_wrapObject(h), or _wrapComponent(kind, m, id) with
\* id >= 0) returns the instance the earlier call returned.
C1_IdentityStable ==
    [][ (hist.key # <<>> /\ op'.wrap = hist.key) => ret'.val = hist.inst ]_vars

\* C1, amended: with no reset() and no init() in between, a wrap call for
\* the key of an earlier wrap call returns the instance the earlier call
\* returned, whatever other wrap calls happen in between.
C1_IdentityStableNoInit ==
    [][ (hist.key # <<>> /\ op'.wrap = hist.key /\ ~hist.reinit)
            => ret'.val = hist.inst ]_vars

\* A repeated wrap call has returned the remembered instance although a
\* wrapper of the same kind was constructed after it.
C1_Rewrapped ==
    /\ hist.key # <<>>
    /\ op.wrap = hist.key
    /\ op.hit
    /\ ~hist.reinit
    /\ ret.val = hist.inst
    /\ ret.val < InstancesOf(op.wrap)

\* C2: when a wrap call for (m, id) finds the cached wrapper of a destroyed
\* component (its id reissued by the native runtime), the wrapper it returns
\* has _manager = m and _id = id.
C2_ReusedIdReflectsNewEntity ==
    [][ (Len(op'.wrap) = 2 /\ op'.hit /\ op'.was = JsUndefined /\ ret'.err = "")
            => /\ comps'[ret'.val]._manager = op'.wrap[1]
               /\ comps'[ret'.val]._id = op'.wrap[2] ]_vars

\* C3, as stated: Scene.addObject leaves the handle field of every destroyed
\* wrapper as it is, so a destroyed wrapper stays invalid.
C3_DestroyedWrapperStaysInvalid ==
    [][ op'.name = "Scene.addObject"
            => \A w \in ObjInsts : objs[w] = JsNull => objs'[w] = JsNull ]_vars

\* C3, amended: a wrap of handle h through any path returns the wrapper
\* cached for h when there is one, destroyed or not, and sets its handle
\* field to h; the handle field of every other wrapper is left as it is.
C3_CachedWrapperRepointed ==
    [][ (Len(op'.wrap) = 1 /\ ret'.err = "")
            => LET h == op'.wrap[1]
                   r == ret'.val
               IN  /\ objs'[r] = h
                   /\ ObjectCache[h] # NoInst => r = ObjectCache[h]
                   /\ \A w \in ObjInsts \ {r} : objs'[w] = objs[w] ]_vars

\* Scene.addObject has returned a wrapper that was destroyed before, now
\* holding the reused handle.
C3_DestroyedWrapperReturned ==
    /\ op.name = "Scene.addObject"
    /\ op.hit
    /\ op.was = JsNull
    /\ objs[ret.val] = op.wrap[1]

\* C4: $Object.destroy() and Component.destroy() issue exactly one native
\* removal call, which carries the handle the wrapper held when it held
\* one, and afterwards the handle fields hold null (objectId) or undefined
\* (_manager, _id).
C4_DestroyClearsHandle ==
    [][ /\ op'.name = "$Object.destroy"
            => LET o == op'.args[1]
               IN  /\ Len(calls') = 1
                   /\ calls'[1].f = "_wl_scene_remove_object"
                   /\ objs[o] \in Handles => calls'[1].args = <<objs[o]>>
                   /\ objs'[o] = JsNull
        /\ op'.name = "Component.destroy"
            => LET c == op'.args[1]
               IN  /\ Len(calls') = 1
                   /\ calls'[1].f = "_wl_component_remove"
                   /\ comps[c]._id \in CompIds
                        => calls'[1].args = <<comps[c]._manager, comps[c]._id>>
                   /\ comps'[c]._manager = JsUndefined
                   /\ comps'[c]._id = JsUndefined ]_vars

\* Component.destroy() has removed the mesh component with id 0 through its
\* wrapper, after an $Object wrapper was destroyed.
C4_Destroyed ==
    /\ op.name = "Component.destroy"
    /\ calls = <<Call("_wl_component_remove", <<1, 0>>)>>
    /\ comps[op.args[1]]._id = JsUndefined
    /\ \E o \in ObjInsts : objs[o] = JsNull

\* C5: `.active = true` on a destroyed component wrapper throws, or issues
\* no native call that addresses a live component; it leaves the active
\* state of every component as it is.
C5_StaleSetActiveFailsFast ==
    [][ (/\ op'.name = "Component.active="
         /\ op'.args[2] = 1
         /\ comps[op'.args[1]]._id = JsUndefined)
            => /\ \/ ret'.err # ""
                  \/ \A i \in 1..Len(calls') :
                        ~CompLive(<<calls'[i].args[1], calls'[i].args[2]>>)
               /\ nActive' = nActive ]_vars

(***************************************************************************)
(* Properties of the arena.                                                *)
(***************************************************************************)
\* ceil(n / 1024) * 1024, as the least multiple of 1024 that is >= n.
LeastMultipleOf1024(n) ==
    CHOOSE c \in {1024 * k : k \in 0..(MaxChunks + 1)} : c >= n /\ c - n < 1024

\* C6: after requireTempMem(n) the capacity is >= n; from a capacity < n it
\* becomes exactly ceil(n / 1024) * 1024 (1500 at capacity 1024 gives 2048);
\* from a capacity >= n the capacity, the base address and the five views
\* are unchanged and the allocator is not called.
C6_RequireTempMemEnsures ==
    [][ op'.name = "requireTempMem"
            => LET n == op'.args[1]
               IN  /\ _tempMemSize' >= n
                   /\ _tempMemSize < n
                        => _tempMemSize' = LeastMultipleOf1024(n)
                   /\ (n = 1500 /\ _tempMemSize = 1024) => _tempMemSize' = 2048
                   /\ _tempMemSize >= n
                        => /\ UNCHANGED <<arenaVars, heap>>
                           /\ calls' = <<>> ]_vars

\* requireTempMem(1500) has grown an arena of 1024 bytes to 2048 bytes.
C6_Grown ==
    /\ op.name = "requireTempMem"
    /\ op.args = <<1500>>
    /\ Len(calls) = 2
    /\ calls[2] = Call("_malloc", <<2048>>)
    /\ _tempMemSize = 2048

\* C7, as stated: the capacity in each state is >= its value in every
\* earlier state.
C7_CapacityOnlyGrows == [][ _tempMemSize' >= _tempMemSize ]_vars

\* C7, amended: init() sets the capacity to 1024 bytes whatever it was;
\* every other call leaves the capacity as it is or grows it.
C7_CapacityOnlyGrowsExceptInit ==
    [][ IF op'.name = "init" THEN _tempMemSize' = 1024
        ELSE _tempMemSize' >= _tempMemSize ]_vars

\* getTempBufferF32(257) has grown the arena.
C7_GrownByGetTempBuffer ==
    /\ op.name = "f32"
    /\ op.args = <<257>>
    /\ calls # <<>>
    /\ _tempMemSize = 2048

\* C8: after init(), the five views start at _tempMem, with capacity / 4
\* (float32, int32, uint32), capacity / 2 (uint16) and capacity (uint8)
\* elements, and a getTempBuffer* call has returned the view of this base
\* and capacity.
C8_ViewsConsistent ==
    scene = "Scene"
        => /\ \A v \in {_tempMemFloat, _tempMemInt, _tempMemUint32} :
                v = [byteOffset |-> _tempMem, length |-> _tempMemSize \div 4]
           /\ _tempMemUint16 =
                [byteOffset |-> _tempMem, length |-> _tempMemSize \div 2]
           /\ _tempMemUint8 = [byteOffset |-> _tempMem, length |-> _tempMemSize]
           /\ op.name \in ViewKinds
                => ret.val =
                     [byteOffset |-> _tempMem,
                      length |-> _tempMemSize \div
                                   (IF op.name = "u8" THEN 1
                                    ELSE IF op.name = "u16" THEN 2 ELSE 4)]

\* getTempBufferU16(513) has grown the arena and returned the new view.
C8_ViewAfterGrowth ==
    /\ scene = "Scene"
    /\ op.name = "u16"
    /\ op.args = <<513>>
    /\ calls # <<>>
    /\ _tempMem # 0
    /\ ret.val = [byteOffset |-> _tempMem, length |-> 1024]

\* C9: a call that asked the allocator for a new arena block and got 0 ends
\* with an error.
C9_AllocatorFailureSurfaced ==
    (/\ op.name \in ViewKinds \cup {"requireTempMem"}
     /\ calls # <<>>
     /\ _tempMem = 0)
        => ret.err # ""

(***************************************************************************)
(* Properties of the mesh attribute accessor.                              *)
(***************************************************************************)
AccessorCalls == {"MeshAttributeAccessor.get", "MeshAttributeAccessor.set"}

\* C10: get(index, out) and set(i, v) with a length that is not a multiple
\* of the component count (1..4) throw, leave the arena (capacity, base,
\* views, contents), the heap and the mesh as they are, and issue no native
\* call.
C10_LengthValidatedFirst ==
    [][ (/\ op'.name \in AccessorCalls
         /\ accessor._componentCount \in 1..4
         /\ op'.args[2] % accessor._componentCount # 0)
            => /\ ret'.err = "Error"
               /\ calls' = <<>>
               /\ UNCHANGED <<arenaVars, heap, nMesh>> ]_vars

\* set() has thrown for 257 values, more than the arena holds as float32,
\* on an attribute of 3 components.
C10_Rejected ==
    /\ op.name = "MeshAttributeAccessor.set"
    /\ op.args[2] = 257
    /\ accessor._componentCount = 3
    /\ accessor.kind = "f32"
    /\ _tempMemSize = 1024
    /\ ret.err = "Error"

\* C11: get(index, out) with out.length = 0 throws the length error and
\* issues no native call.
C11_EmptyOutRejected ==
    [][ (op'.name = "MeshAttributeAccessor.get" /\ op'.args[2] = 0)
            => /\ ret'.err = "Error"
               /\ calls' = <<>> ]_vars

\* Whether an element of the accessor's type can hold the number x.
Representable(kind, x) ==
    IF kind = "u16" THEN x \in 0..65535 ELSE x \in -16777216..16777216

NoValue == [shape |-> "undefined", root |-> NoInst, extensions |-> 0]
NewPromise == [state |-> "pending", value |-> NoValue]
\* A promise that every resolve and reject call settles anew.
Settle_again(proms, p, state, value) ==
    [proms EXCEPT ![p] = [state |-> state, value |-> value]]
\* resolve(value) and reject(): a promise that is settled stays as it is.
Settle(proms, p, state, value) ==
    IF proms[p].state = "pending"
    THEN [proms EXCEPT ![p] = [state |-> state, value |-> value]]
    ELSE proms

\* Bytes of the file names passed to Scene.append.
NameBytes == {5}
\* The extensions argument the runtime passes to a success handler: 0 for
\* none, 1 for an object of glTF extensions.
Extensions == {0, 1}

\* The success handler of record `rec`, called with (id, extensions).
success(rec, proms, cache, os, id, extensions) ==
    LET W == _wrapObject(cache, os, id)
        value == IF extensions # 0
                 THEN [shape |-> "rootAndExtensions", root |-> W.ret,
                       extensions |-> extensions]
                 ELSE [shape |-> "root", root |-> W.ret, extensions |-> 0]
    IN  [cache |-> W.cache, objs |-> W.objs,
         promises |-> Settle(proms, rec.promise, "fulfilled", value)]
\* The error handler of record `rec`.
error(rec, proms, cache, os) ==
    [cache |-> cache, objs |-> os,
     promises |-> Settle(proms, rec.promise, "rejected", NoValue)]

\* The runtime completing load `callback` against table `table`: outcome is
\* "success" or "error" ("none": it does not complete it now).  A sequence
\* number with no record makes the lookup fail and settles nothing.
Complete(table, proms, cache, os, callback, outcome, id, extensions) ==
    IF outcome = "none" \/ callback + 1 > Len(table)
    THEN [cache |-> cache, objs |-> os, promises |-> proms]
    ELSE IF outcome = "success"
         THEN success(table[callback + 1], proms, cache, os, id, extensions)
         ELSE error(table[callback + 1], proms, cache, os)

Outcomes == {"none", "success", "error"}

\* Scene.append with the record stored only after _wl_append_scene returns.
SceneAppend_late(ext, outcome, id, extensions) ==
    /\ Len(promises) < MaxLoads
    /\ outcome = "success" => CanWrapObject(id)
    /\ \E strLen \in {n + 1 : n \in NameBytes}, ptr \in MallocResults(heap) :
        LET callback == Len(_sceneLoadedCallback)
            p == Len(promises) + 1
            proms == Append(promises, NewPromise)
            table == Append(_sceneLoadedCallback, [promise |-> p])
            C == Complete(_sceneLoadedCallback, proms, ObjectCache, objs,
                          callback, outcome, id, extensions)
        IN  /\ _sceneLoadedCallback' = table
            /\ promises' = C.promises
            /\ ObjectCache' = C.cache
            /\ objs' = C.objs
            /\ nLoads' = nLoads \cup {<<callback, p>>}
            /\ nLive' = IF outcome = "success" THEN nLive \cup {id} ELSE nLive
            /\ calls' = <<Call("_malloc", <<strLen>>),
                          Call("_wl_append_scene", <<ptr, Bool(ext), callback>>),
                          Call("_free", <<ptr>>)>>
            /\ op' = Op("Scene.append",
                        IF outcome = "success"
                        THEN <<Bool(ext), outcome, id, extensions>>
                        ELSE <<Bool(ext), outcome>>)
            /\ ret' = Ok(p)
    /\ UNCHANGED <<ComponentCache, comps, scene, materialVars, accessor,
                   nMesh, arenaVars, heap, nCompObj, nActive, histVars>>

\* Scene.append(filename, options); ext is options.loadGltfExtensions.  The
\* runtime may complete the load inside _wl_append_scene (outcome, id,
\* extensions) or later.  The call returns the promise.
SceneAppend(ext, outcome, id, extensions) ==
    /\ Len(promises) < MaxLoads
    /\ outcome = "success" => CanWrapObject(id)
    /\ \E strLen \in {n + 1 : n \in NameBytes}, ptr \in MallocResults(heap) :
        LET callback == Len(_sceneLoadedCallback)
            p == Len(promises) + 1
            proms == Append(promises, NewPromise)
            table == Append(_sceneLoadedCallback, [promise |-> p])
            C == Complete(table, proms, ObjectCache, objs,
                          callback, outcome, id, extensions)
        IN  /\ _sceneLoadedCallback' = table
            /\ promises' = C.promises
            /\ ObjectCache' = C.cache
            /\ objs' = C.objs
            /\ nLoads' = nLoads \cup {<<callback, p>>}
            /\ nLive' = IF outcome = "success" THEN nLive \cup {id} ELSE nLive
            /\ calls' = <<Call("_malloc", <<strLen>>),
                          Call("_wl_append_scene", <<ptr, Bool(ext), callback>>),
                          Call("_free", <<ptr>>)>>
            /\ op' = Op("Scene.append",
                        IF outcome = "success"
                        THEN <<Bool(ext), outcome, id, extensions>>
                        ELSE <<Bool(ext), outcome>>)
            /\ ret' = Ok(p)
    /\ UNCHANGED <<ComponentCache, comps, scene, materialVars, accessor,
                   nMesh, arenaVars, heap, nCompObj, nActive, histVars>>

\* The runtime completes `load` with success: it calls the success handler
\* of the sequence number an earlier _wl_append_scene gave it for that load.
SceneLoaded(load, id, extensions) ==
    /\ load \in nLoads
    /\ CanWrapObject(id)
    /\ LET callback == load[1]
           C == Complete(_sceneLoadedCallback, promises, ObjectCache, objs,
                         callback, "success", id, extensions)
       IN  /\ promises' = C.promises
           /\ ObjectCache' = C.cache
           /\ objs' = C.objs
    /\ nLive' = nLive \cup {id}
    /\ op' = Op("success", <<load, id, extensions>>)
    /\ ret' = IF load[1] + 1 > Len(_sceneLoadedCallback)
              THEN Throw("TypeError") ELSE Ok(JsUndefined)
    /\ calls' = <<>>
    /\ UNCHANGED <<_sceneLoadedCallback, nLoads, ComponentCache, comps,
                   scene, materialVars, accessor, nMesh, arenaVars, heap,
                   nCompObj, nActive, histVars>>

\* The runtime completes `load` with an error: it calls the error handler
\* of the load's sequence number.
SceneLoadFailed(load) ==
    /\ load \in nLoads
    /\ LET C == Complete(_sceneLoadedCallback, promises, ObjectCache, objs,
                         load[1], "error", 0, 0)
       IN  promises' = C.promises
    /\ op' = Op("error", <<load>>)
    /\ ret' = IF load[1] + 1 > Len(_sceneLoadedCallback)
              THEN Throw("TypeError") ELSE Ok(JsUndefined)
    /\ calls' = <<>>
    /\ UNCHANGED <<_sceneLoadedCallback, nLoads, cacheVars, scene,
                   materialVars, accessor, nMesh, arenaVars, heap,
                   nativeVars, histVars>>

NextLoad ==
    \/ ApiReset
    \/ \E ext \in BOOLEAN, outcome \in Outcomes, id \in ObjHandles,
          extensions \in Extensions : SceneAppend(ext, outcome, id, extensions)
    \/ \E load \in nLoads, id \in ObjHandles, extensions \in Extensions :
          SceneLoaded(load, id, extensions)
    \/ \E load \in nLoads : SceneLoadFailed(load)

SpecLoad == InitFirstBlock /\ [][NextLoad]_vars

\* reset() against both caches and loads that are still pending.
NextReset ==
    \/ ApiReset
    \/ \E ext \in BOOLEAN, id \in ObjHandles : SceneAppend(ext, "none", id, 0)
    \/ \E h \in ObjHandles : WrapObjectCall(h)
    \/ \E m \in Managers : WrapComponentCall(m, 0)

SpecReset == InitReady /\ [][NextReset]_vars

(***************************************************************************)
(* Claims about Scene.append.                                              *)
(***************************************************************************)
\* C13: Scene.append stores the completion record at its sequence number
\* before it invokes _wl_append_scene, so that a completion delivered inside
\* that call settles the promise the call returns; the sequence number is the
\* length of the table at call time, and the table keeps its records until a
\* reset(), so that two append calls with no reset() between them pass
\* different sequence numbers.
C13_RecordStoredBeforeNativeCall ==
    /\ [][ op'.name = "Scene.append" =>
             LET callback == calls'[2].args[3]
             IN  /\ calls'[2].f = "_wl_append_scene"
                 /\ callback = Len(_sceneLoadedCallback)
                 /\ Len(_sceneLoadedCallback') = callback + 1
                 /\ _sceneLoadedCallback'[callback + 1].promise = ret'.val
                 /\ op'.args[2] = "success"
                        => promises'[ret'.val].state = "fulfilled"
                 /\ op'.args[2] = "error"
                        => promises'[ret'.val].state = "rejected"
                 /\ op'.args[2] = "none"
                        => promises'[ret'.val].state = "pending" ]_vars
    /\ [][ op'.name # "reset" =>
             /\ Len(_sceneLoadedCallback') >= Len(_sceneLoadedCallback)
             /\ \A i \in 1..Len(_sceneLoadedCallback) :
                    _sceneLoadedCallback'[i] = _sceneLoadedCallback[i] ]_vars
\* A second append with no reset() since the first, completed with success
\* inside _wl_append_scene.
C13_SecondAppendCompletedInCall ==
    /\ op.name = "Scene.append"
    /\ op.args[2] = "success"
    /\ Len(_sceneLoadedCallback) = 2
    /\ calls[2].args[3] = 1
    /\ promises[2].state = "fulfilled"

\* The promise the record of sequence number cb settles.
PromiseOf(cb) == _sceneLoadedCallback[cb + 1].promise
\* The append calls of a step.
AppendSceneCalls(cs) == {i \in 1..Len(cs) : cs[i].f = "_wl_append_scene"}

\* C14: the error handler of a pending load rejects its promise and the core
\* issues no _wl_append_scene call of its own (no retry); the success handler
\* called with root id r resolves the promise with the wrapper _wrapObject(r)
\* returns, or with {root, extensions} when extensions were passed; a promise
\* that is settled is never settled again.
C14_CompletionSettlesOnce ==
    /\ [][ (op'.name = "error" /\ ret'.err = "") =>
             LET p == PromiseOf(op'.args[1][1])
             IN  /\ calls' = <<>>
                 /\ promises[p].state = "pending"
                        => promises'[p] = [state |-> "rejected", value |-> NoValue]
         ]_vars
    /\ [][ (op'.name = "Scene.append" /\ op'.args[2] = "error") =>
             /\ Cardinality(AppendSceneCalls(calls')) = 1
             /\ promises'[ret'.val].state = "rejected" ]_vars
    /\ [][ (op'.name = "success" /\ ret'.err = "") =>
             LET p == PromiseOf(op'.args[1][1])
                 r == op'.args[2]
                 extensions == op'.args[3]
             IN  /\ calls' = <<>>
                 /\ ObjectCache'[r] # NoInst
                 /\ objs'[ObjectCache'[r]] = r
                 /\ promises[p].state = "pending"
                        => /\ promises'[p].state = "fulfilled"
                           /\ promises'[p].value.root = ObjectCache'[r]
                           /\ promises'[p].value.shape =
                                IF extensions # 0 THEN "rootAndExtensions"
                                ELSE "root"
                           /\ promises'[p].value.extensions = extensions
         ]_vars
    /\ [][ \A p \in 1..Len(promises) :
             promises[p].state # "pending" => promises'[p] = promises[p] ]_vars
\* The success handler called for a load whose promise was rejected before.
C14_SuccessAfterError ==
    /\ op.name = "success"
    /\ ret.err = ""
    /\ promises[PromiseOf(op.args[1][1])].state = "rejected"

\* C15: after reset() the node cache, the component cache and the table of
\* pending loads are empty: no record stored before the reset remains, and a
\* wrap call that finds no cache entry (the first for its key after the
\* reset) constructs an instance that is none of the earlier ones.
C15_ResetClearsCaches ==
    /\ [](op.name = "reset" =>
            /\ ObjectCache = EmptyObjectCache
            /\ ComponentCache = EmptyComponentCache
            /\ _sceneLoadedCallback = <<>>)
    /\ [][ (op.name = "reset" /\ op'.name = "_wrapObject")
             => /\ ret'.val \notin 1..Len(objs)
                /\ ret'.val \in 1..Len(objs') ]_vars
    /\ [][ (op.name = "reset" /\ op'.name = "_wrapComponent" /\ op'.args[2] >= 0)
             => /\ ret'.val \notin 1..Len(comps)
                /\ ret'.val \in 1..Len(comps') ]_vars
\* A handle wrapped before and after a reset() that also dropped a pending
\* load: two instances for the one handle, and an empty table.
C15_RewrappedAfterReset ==
    /\ op.name = "_wrapObject"
    /\ Len(objs) = 2
    /\ objs[1] = objs[2]
    /\ promises # <<>>
    /\ _sceneLoadedCallback = <<>>

\* C16: a.equals(b) of two component wrappers is true iff both refer to the
\* same manager and the same component handle, and of two node wrappers iff
\* both refer to the same node handle; wrappers of different entities (here:
\* components of different native types, which live in different managers)
\* never compare equal, also after either or both have been destroyed.
C16_EqualsIsIdentity ==
    /\ [][ (op'.name = "Component.equals" /\ op'.args[2] # 0) =>
             LET a == comps[op'.args[1]]
                 b == comps[op'.args[2]]
             IN  /\ a.type # b.type => ret'.val = 0
                 /\ (a._manager >= 0 /\ b._manager >= 0) =>
                        (ret'.val = 1 <=> (a._manager = b._manager /\ a._id = b._id))
         ]_vars
    /\ [][ (op'.name = "$Object.equals" /\ op'.args[2] # 0) =>
             LET a == objs[op'.args[1]]
                 b == objs[op'.args[2]]
             IN  (a >= 0 /\ b >= 0) => (ret'.val = 1 <=> a = b) ]_vars

(***************************************************************************)
(* Materials: the wrappers MeshComponent.material returns, and the get and *)
(* set handlers of the Proxy the Material constructor returns.             *)
(***************************************************************************)
MaterialInsts == 1..Len(materials)
TexInsts == 1..Len(texs)

\* new Material(index): the instances with the new one appended.
NewMaterial(ms, index) ==
    Append(ms, [_index |-> index, _definition |-> 0, own |-> NoFields])

\* MeshComponent.material (getter) of the mesh component.
MeshComponentMaterial ==
    LET id == nMeshMaterial
    IN  /\ id > 0 => Len(materials) < MaxMaterials
        /\ op' = Op("MeshComponent.material", <<>>)
        /\ IF id > 0
           THEN /\ materials' = NewMaterial(materials, id)
                /\ calls' = <<Call("_wl_mesh_component_get_material", <<0>>),
                              Call("_wl_material_get_definition", <<id>>)>>
                /\ ret' = Ok(JsValue("Material", <<Len(materials) + 1>>))
           ELSE /\ UNCHANGED materials
                /\ calls' = <<Call("_wl_mesh_component_get_material", <<0>>)>>
                /\ ret' = Ok(NullValue)
        /\ UNCHANGED <<texs, textures, imageVars, nParams, nMeshMaterial, scene, accessor,
                       nMesh, loadVars, cacheVars, arenaVars, heap, nativeVars,
                       histVars>>

\* MeshComponent.material = m (setter); m = 0 stands for null.
MeshComponentSetMaterial(m) ==
    LET index == IF m # 0 THEN materials[m]._index ELSE 0
    IN  /\ nMeshMaterial' = index
        /\ op' = Op("MeshComponent.material=", <<m>>)
        /\ calls' = <<Call("_wl_mesh_component_set_material", <<0, index>>)>>
        /\ ret' = Ok(JsUndefined)
        /\ UNCHANGED <<materials, texs, textures, imageVars, nParams, scene, accessor,
                       nMesh, loadVars, cacheVars, arenaVars, heap, nativeVars,
                       histVars>>

\* new Texture(id), wrapping a texture id.
TextureNew(id) ==
    /\ Len(texs) < MaxTextures
    /\ texs' = Append(texs, id)
    /\ textures' = [textures EXCEPT ![id] = Len(texs) + 1]
    /\ _imageIndex' = Append(_imageIndex, JsUndefined)
    /\ UNCHANGED _images
    /\ op' = Op("new Texture", <<id>>)
    /\ calls' = <<>>
    /\ ret' = Ok(JsValue("Texture", <<Len(texs) + 1>>))
    /\ UNCHANGED <<materials, nParams, nMeshMaterial, scene, accessor, nMesh,
                   loadVars, cacheVars, arenaVars, heap, nativeVars, histVars>>

\* The heap view kind a parameter type is read through.
ParamKind(type) ==
    CASE type = MaterialParamType.UnsignedInt -> "u32"
      [] type = MaterialParamType.Float -> "f32"
      [] OTHER -> "i32"

\* The get handler of the Proxy, for Material m and property prop; hasValue
\* is what _wl_material_get_param_value returns for a parameter.  The
\* runtime writes the components of a parameter that is set to the arena;
\* the handler then reads them through the view of the parameter's type.
ProxyGet(m, prop, hasValue) ==
    LET target == materials[m]
    IN  /\ op' = Op("Material.get", <<m, prop>>)
        /\ IF prop \notin ParamNames
           THEN /\ ret' = Ok(target.own[prop])
                /\ calls' = <<>>
                /\ UNCHANGED <<tempData, texs, textures, imageVars>>
           ELSE LET param == MaterialDefinition[prop]
                    type == param.type
                    value == nParams[target._index][prop]
                    kind == ParamKind(type.type)
                    view == CASE kind = "u32" -> _tempMemUint32
                              [] kind = "f32" -> _tempMemFloat
                              [] OTHER -> _tempMemInt
                    data == IF value.set THEN Staged(_tempMem, kind, value.v)
                            ELSE tempData
                    first == IF data.base = view.byteOffset /\ data.elems # <<>>
                             THEN data.elems[1] ELSE 0
                IN  /\ calls' = <<Call("_wl_material_get_param_value",
                                       <<target._index, param.index,
                                         ToInt32(_tempMem)>>)>>
                    /\ tempData' = data
                    /\ IF ~hasValue
                       THEN /\ ret' = Ok(UndefinedValue)
                            /\ UNCHANGED <<texs, textures, imageVars>>
                       ELSE IF type.type = MaterialParamType.Sampler
                       THEN /\ first \in TextureIds
                            /\ Len(texs) < MaxTextures
                            /\ texs' = Append(texs, first)
                            /\ textures' = [textures EXCEPT
                                               ![first] = Len(texs) + 1]
                            /\ _imageIndex' = Append(_imageIndex, JsUndefined)
                            /\ UNCHANGED _images
                            /\ ret' = Ok(JsValue("Texture", <<Len(texs) + 1>>))
                       ELSE /\ UNCHANGED <<texs, textures, imageVars>>
                            /\ ret' =
                                 IF type.type = MaterialParamType.Font
                                 THEN Throw("Error")
                                 ELSE IF type.componentCount = 1
                                 THEN Ok(JsNum(first))
                                 ELSE Ok(JsValue(IF kind = "f32"
                                                 THEN "Float32Array"
                                                 ELSE IF kind = "u32"
                                                 THEN "Uint32Array"
                                                 ELSE "Int32Array",
                                                 <<ToInt32(_tempMem),
                                                   type.componentCount>>))
        /\ UNCHANGED <<materials, nParams, nMeshMaterial, scene, accessor,
                       nMesh, loadVars, cacheVars, _tempMem, _tempMemSize,
                       _tempMemFloat, _tempMemInt, _tempMemUint32,
                       _tempMemUint16, _tempMemUint8, heap, nativeVars,
                       histVars>>

\* A get handler that does not look at what the value query returns.
MaterialGet_stale(m, prop) == ProxyGet(m, prop, TRUE)

\* material[prop] (read).
MaterialGet(m, prop) ==
    ProxyGet(m, prop,
             IF prop \in ParamNames
             THEN nParams[materials[m]._index][prop].set ELSE FALSE)

\* The number a JS value arrives as in an integer argument of a native call.
\* (A string that is no numeral, an object and an array of two numbers
\* convert to NaN and arrive as 0, an array of one number as that number.)
ToNativeInt(value) ==
    IF value.t = "number" THEN value.v[1]
    ELSE IF value.t = "array" /\ Len(value.v) = 1 THEN value.v[1]
    ELSE 0

\* The set handler of the Proxy, for Material m, property prop and the
\* value assigned; known tells whether the definition has the property.
ProxySet(m, prop, value, known) ==
    LET target == materials[m]
    IN  /\ op' = Op("Material.set", <<m, prop, value>>)
        /\ IF ~known
           THEN /\ materials' = [materials EXCEPT ![m].own[prop] = value]
                /\ ret' = Ok(JsUndefined)
                /\ calls' = <<>>
                /\ UNCHANGED <<tempData, nParams>>
           ELSE LET param == MaterialDefinition[prop]
                    type == param.type
                IN  /\ UNCHANGED materials
                    /\ IF type.type = MaterialParamType.Font
                       THEN /\ ret' = Throw("Error")
                            /\ calls' = <<>>
                            /\ UNCHANGED <<tempData, nParams>>
                       ELSE IF type.type = MaterialParamType.Float
                       THEN IF value.t = "null"
                            THEN \* value.length of null
                                 /\ ret' = Throw("TypeError")
                                 /\ calls' = <<>>
                                 /\ UNCHANGED <<tempData, nParams>>
                            ELSE LET elems == IF value.t \in {"number", "array"}
                                              THEN value.v ELSE <<>>
                                     count == IF value.t = "number" THEN 1
                                              ELSE Len(elems)
                                 IN  /\ tempData' =
                                          IF elems = <<>> THEN tempData
                                          ELSE Staged(_tempMem, "f32", elems)
                                     /\ calls' =
                                          <<Call("_wl_material_set_param_value_float",
                                                 <<target._index, param.index,
                                                   ToInt32(_tempMem), count>>)>>
                                     /\ nParams' =
                                          IF count = 0 THEN nParams
                                          ELSE [nParams EXCEPT
                                                  ![target._index][prop] =
                                                     [set |-> TRUE, v |-> elems]]
                                     /\ ret' = Ok(JsUndefined)
                       ELSE LET v == IF value.t = "Texture"
                                     THEN JsNum(texs[value.v[1]]) ELSE value
                                n == ToNativeInt(v)
                            IN  /\ calls' =
                                     <<Call("_wl_material_set_param_value_uint",
                                            <<target._index, param.index, n>>)>>
                                /\ nParams' = [nParams EXCEPT
                                                 ![target._index][prop] =
                                                    [set |-> TRUE, v |-> <<n>>]]
                                /\ ret' = Ok(JsUndefined)
                                /\ UNCHANGED tempData
        /\ UNCHANGED <<texs, textures, imageVars, nMeshMaterial, scene, accessor, nMesh,
                       loadVars, cacheVars, _tempMem, _tempMemSize,
                       _tempMemFloat, _tempMemInt, _tempMemUint32,
                       _tempMemUint16, _tempMemUint8, heap, nativeVars,
                       histVars>>

\* A set handler that does not find Font parameters in the definition.
MaterialSet_fontField(m, prop, value) ==
    ProxySet(m, prop, value,
             IF prop \in ParamNames
             THEN MaterialDefinition[prop].type.type # MaterialParamType.Font
             ELSE FALSE)

\* material[prop] = value.
MaterialSet(m, prop, value) == ProxySet(m, prop, value, prop \in ParamNames)

\* The runtime sets the Font parameter of material `index` (a scene file
\* names the font; the API has no call that does).
FontLoaded(index) ==
    /\ ~nParams[index]["font"].set
    /\ nParams' = [nParams EXCEPT ![index]["font"] = [set |-> TRUE, v |-> <<1>>]]
    /\ op' = Op("font loaded", <<index>>)
    /\ calls' = <<>>
    /\ ret' = Ok(JsUndefined)
    /\ UNCHANGED <<materials, texs, textures, imageVars, nMeshMaterial, scene, accessor,
                   nMesh, loadVars, cacheVars, arenaVars, heap, nativeVars,
                   histVars>>

\* The values assigned to material properties: a number, Texture and
\* Material wrappers, a string ("abc"), an array ([1, 0]) and null.
Values ==
    {JsNum(MaxTextureId), JsValue("string", <<>>), JsValue("array", <<1, 0>>),
     NullValue}
        \cup {JsValue("Texture", <<i>>) : i \in TexInsts}
        \cup {JsValue("Material", <<i>>) : i \in MaterialInsts}
\* Every value is assigned to the Sampler parameter, and to each other
\* property values that tell the branches of its case apart.
ValuesFor(prop) ==
    IF prop = "diffuseTexture" THEN Values
    ELSE IF prop = "diffuseColor"
    THEN {JsNum(MaxTextureId), JsValue("array", <<1, 0>>)}
    ELSE IF prop = "font"
    THEN {JsNum(MaxTextureId)} \cup {JsValue("Texture", <<i>>) : i \in TexInsts}
    ELSE {JsNum(MaxTextureId)}

\* The wrappers handed out for materials and textures: the mesh component's
\* material, and the texture of its Sampler parameter.
NextMaterial ==
    \/ MeshComponentMaterial
    \/ \E m \in {0} \cup MaterialInsts : MeshComponentSetMaterial(m)
    \/ \E id \in TextureIds : TextureNew(id)
    \/ \E m \in MaterialInsts : MaterialGet(m, "diffuseTexture")
    \/ \E m \in MaterialInsts :
          \E value \in {JsNum(id) : id \in TextureIds}
                          \cup {JsValue("Texture", <<t>>) : t \in TexInsts} :
              MaterialSet(m, "diffuseTexture", value)

SpecMaterial == InitMaterial /\ [][NextMaterial]_vars

\* The properties of one Material, read and assigned.
NextParam ==
    \/ materials = <<>> /\ MeshComponentMaterial
    \/ \E id \in TextureIds : TextureNew(id)
    \/ \E m \in MaterialInsts, prop \in PropNames : MaterialGet(m, prop)
    \/ \E m \in MaterialInsts, prop \in PropNames :
          \E value \in ValuesFor(prop) : MaterialSet(m, prop, value)
    \/ \E index \in MaterialIds : FontLoaded(index)

SpecParam == InitMaterial /\ [][NextParam]_vars

(***************************************************************************)
(* Claims about materials and textures.                                    *)
(***************************************************************************)
\* C17: two queries that yield the same native handle return the same
\* wrapper instance, for materials and textures as for nodes: reading
\* MeshComponent.material twice in a row (nothing in between, so the native
\* material is the same) gives the same Material instance, and reading a
\* Sampler property twice in a row the same Texture instance.
C17_StableWrapperEveryKind ==
    /\ [][ (/\ op.name = "MeshComponent.material"
            /\ op'.name = "MeshComponent.material"
            /\ ret.val.t = "Material"
            /\ ret'.val.t = "Material") => ret'.val = ret.val ]_vars
    /\ [][ (/\ op.name = "Material.get"
            /\ op' = op
            /\ ret.err = ""
            /\ ret'.err = ""
            /\ ret.val.t = "Texture"
            /\ ret'.val.t = "Texture") => ret'.val = ret.val ]_vars

\* C18: reading a property of the parameter table whose parameter the
\* runtime reports as unset yields undefined and throws nothing, whatever
\* the parameter's type (Font included) and whatever an earlier call left
\* in the arena.
C18_UnsetReadsUndefined ==
    [][ (/\ op'.name = "Material.get"
         /\ op'.args[2] \in ParamNames
         /\ ~nParams[materials[op'.args[1]]._index][op'.args[2]].set)
            => ret' = Ok(UndefinedValue) ]_vars
\* The unset Font parameter read while the arena holds the components an
\* earlier call staged.
C18_UnsetFontRead ==
    /\ op.name = "Material.get"
    /\ op.args[2] = "font"
    /\ ret = Ok(UndefinedValue)
    /\ tempData.elems # <<>>

\* C19: assigning to a Sampler parameter a value that is neither a number
\* nor a Texture fails with a type error and makes no native call; a number
\* or a Texture makes one native set call carrying the texture handle.
C19_SamplerTypeChecked ==
    [][ (op'.name = "Material.set" /\ op'.args[2] = "diffuseTexture") =>
          LET value == op'.args[3]
          IN  IF value.t \in {"number", "Texture"}
              THEN /\ ret'.err = ""
                   /\ Len(calls') = 1
                   /\ calls'[1].f = "_wl_material_set_param_value_uint"
                   /\ calls'[1].args[3] = IF value.t = "Texture"
                                          THEN texs[value.v[1]] ELSE value.v[1]
              ELSE /\ ret'.err = "TypeError"
                   /\ calls' = <<>> ]_vars

\* C20: assigning any value to a Font parameter throws, makes no native
\* call, leaves the arena and the native parameters as they are and creates
\* no field of that name on the Material.
C20_FontSetUnsupported ==
    [][ (op'.name = "Material.set" /\ op'.args[2] = "font") =>
          /\ ret'.err = "Error"
          /\ calls' = <<>>
          /\ UNCHANGED <<arenaVars, heap, nParams, materials>>
          /\ materials'[op'.args[1]].own["font"] = UndefinedValue ]_vars
\* A Texture assigned to the Font parameter while the arena holds staged
\* components.
C20_TextureAssignedToFont ==
    /\ op.name = "Material.set"
    /\ op.args[2] = "font"
    /\ op.args[3].t = "Texture"
    /\ ret.err = "Error"
    /\ tempData.elems # <<>>

\* C21: assigning to a Float parameter an array whose length differs from
\* the declared component count, or a number to a parameter of more than one
\* component, is rejected before the native call:
\* _wl_material_set_param_value_float is only called with a count equal to
\* the component count, all of whose floats are staged inside the arena.
C21_FloatLengthGuarded ==
    [][ (/\ op'.name = "Material.set"
         /\ op'.args[2] \in ParamNames
         /\ MaterialDefinition[op'.args[2]].type.type = MaterialParamType.Float)
          => LET cc == MaterialDefinition[op'.args[2]].type.componentCount
                 value == op'.args[3]
                 fits == \/ value.t = "number" /\ cc = 1
                         \/ value.t = "array" /\ Len(value.v) = cc
             IN  /\ ~fits => (ret'.err # "" /\ calls' = <<>>)
                 /\ \A i \in 1..Len(calls') :
                       calls'[i].f = "_wl_material_set_param_value_float"
                          => /\ calls'[i].args[4] = cc
                             /\ 4 * cc <= _tempMemSize
                             /\ Len(tempData'.elems) = cc ]_vars

\* C22: every assignment component.active = b makes exactly one native
\* _wl_component_setActive call with the wrapper's manager, id and b,
\* whatever the component's active state is; the `active` getter makes its
\* one query and changes no state.
C22_ActivationForwarded ==
    /\ [][ op'.name = "Component.active=" =>
             LET c == comps[op'.args[1]]
             IN  calls' = <<Call("_wl_component_setActive",
                                 <<ToInt32(c._manager), ToInt32(c._id),
                                   op'.args[2]>>)>> ]_vars
    /\ [][ op'.name = "Component.active" =>
             /\ Len(calls') = 1
             /\ calls'[1].f = "_wl_component_isActive"
             /\ ret'.val = Bool(NativeKey(comps[op'.args[1]]) \in nActive)
             /\ UNCHANGED <<cacheVars, sceneVars, arenaVars, heap, nativeVars>>
         ]_vars
\* An active component assigned active = true, with the call forwarded.
C22_ActiveSetActive ==
    /\ op.name = "Component.active="
    /\ op.args[2] = 1
    /\ comps[op.args[1]]._id >= 0
    /\ NativeKey(comps[op.args[1]]) \in nActive
    /\ Len(calls) = 1

(***************************************************************************)
(* Scene.addObjects.  The runtime creates the objects and writes their     *)
(* handles to the arena as uint16 values; the model lets it hand out a run *)
(* of consecutive handles that are not in use.                             *)
(***************************************************************************)
\* ObjectCache is a sparse array: the cache with entries for ids as well.
WithEntries(cache, ids) ==
    cache @@ [h \in {ids[i] : i \in 1..Len(ids)} \ DOMAIN cache |-> NoInst]

\* Running sums of f[lo..hi] (split in halves to keep the evaluation
\* shallow).
RECURSIVE Sums(_, _, _)
Sums(f, lo, hi) ==
    IF lo > hi THEN <<>>
    ELSE IF lo = hi THEN <<f[lo]>>
    ELSE LET L == Sums(f, lo, (lo + hi) \div 2)
             R == Sums(f, ((lo + hi) \div 2) + 1, hi)
         IN  L \o [i \in 1..Len(R) |-> R[i] + L[Len(L)]]
\* The function that maps ks[i] to vs[i], for i in lo..hi.
RECURSIVE Pairs(_, _, _, _)
Pairs(ks, vs, lo, hi) ==
    IF lo = hi THEN ks[lo] :> vs[lo]
    ELSE Pairs(ks, vs, lo, (lo + hi) \div 2)
            @@ Pairs(ks, vs, ((lo + hi) \div 2) + 1, hi)

\* Array.from(ids, _wrapObject) for distinct ids: the cache, the instances
\* and the wrappers returned.  The i-th id gets the cached instance, or
\* else the next new one (made[i] counts the instances constructed up to
\* it), and every instance returned has its objectId set to its id.
WrapAll(cache, os, ids) ==
    LET n == Len(ids)
        Miss(h) == cache[h] = NoInst
        Hit(h) == cache[h] # NoInst
        misses == SelectSeq(ids, Miss)
        hits == SelectSeq(ids, Hit)
        found == {cache[hits[i]] : i \in 1..Len(hits)}
        miss == [i \in 1..n |-> IF Miss(ids[i]) THEN 1 ELSE 0]
        made == Sums(miss, 1, n)
        inst == [i \in 1..n |->
                    IF miss[i] = 1 THEN Len(os) + made[i] ELSE cache[ids[i]]]
    IN  IF n = 0 THEN [cache |-> cache, objs |-> os, ret |-> <<>>]
        ELSE [cache |-> Pairs(ids, inst, 1, n) @@ cache,
              objs |-> [o \in 1..(Len(os) + Len(misses)) |->
                          IF o > Len(os) THEN misses[o - Len(os)]
                          ELSE IF o \in found
                          THEN hits[CHOOSE i \in 1..Len(hits) :
                                       cache[hits[i]] = o]
                          ELSE os[o]],
              ret |-> inst]

\* The counts asked for, and the handle before the first of a run.
Counts == {0, 1, MaxCount}
RunStarts == {0, MaxCount}

\* Scene.addObjects without the requireTempMem call.
SceneAddObjects_noRequire(count, p, hint, start) ==
    LET parentId == IF p # 0 THEN ToInt32(objs[p]) ELSE 0
    IN  /\ Len(objs) + count <= MaxCount + 1
        /\ (start + 1)..(start + count) \cap nLive = {}
        /\ LET A == Arena(<<>>)
               capacity == A.size \div 2
               actualCount == IF count <= capacity THEN count ELSE capacity
               ids == [i \in 1..actualCount |-> ToUint16(start + i)]
               W == WrapAll(WithEntries(ObjectCache, ids), objs, ids)
           IN  /\ SetArena([A EXCEPT
                     !.data = IF actualCount = 0 THEN A.data
                              ELSE Staged(A.mem, "u16", ids),
                     !.calls = Append(A.calls,
                         Call("_wl_scene_add_objects",
                              <<parentId, count, hint, ToInt32(A.mem),
                                capacity>>))])
               /\ nLive' = nLive \cup (start + 1)..(start + actualCount)
               /\ ObjectCache' = W.cache
               /\ objs' = W.objs
               /\ op' = Op("Scene.addObjects", <<count, p, hint, start>>)
               /\ ret' = Ok(W.ret)
        /\ UNCHANGED <<ComponentCache, comps, sceneVars, nCompObj, nActive,
                       histVars>>

\* Scene.addObjects(count, parent, componentCountHint); p = 0 stands for a
\* null parent, and start + 1 is the first handle the runtime hands out.
\* The runtime creates as many objects as the capacity it is told holds.
SceneAddObjects(count, p, hint, start) ==
    LET parentId == IF p # 0 THEN ToInt32(objs[p]) ELSE 0
    IN  /\ Len(objs) + count <= MaxCount + 1
        /\ (start + 1)..(start + count) \cap nLive = {}
        /\ \E A \in requireTempMem(Arena(<<>>), count * 2) :
            LET capacity == A.size \div 2
                actualCount == IF count <= capacity THEN count ELSE capacity
                ids == [i \in 1..actualCount |-> ToUint16(start + i)]
                W == WrapAll(WithEntries(ObjectCache, ids), objs, ids)
            IN  /\ SetArena([A EXCEPT
                      !.data = IF actualCount = 0 THEN A.data
                               ELSE Staged(A.mem, "u16", ids),
                      !.calls = Append(A.calls,
                          Call("_wl_scene_add_objects",
                               <<parentId, count, hint, ToInt32(A.mem),
                                 capacity>>))])
                /\ nLive' = nLive \cup (start + 1)..(start + actualCount)
                /\ ObjectCache' = W.cache
                /\ objs' = W.objs
                /\ op' = Op("Scene.addObjects", <<count, p, hint, start>>)
                /\ ret' = Ok(W.ret)
        /\ UNCHANGED <<ComponentCache, comps, sceneVars, nCompObj, nActive,
                       histVars>>

\* Batches against a scene whose first objects are also destroyed, so that
\* handles and their cached wrappers come back.
NextBatch ==
    \/ \E count \in Counts, p \in {0} \cup (ObjInsts \cap {1}),
          start \in RunStarts : SceneAddObjects(count, p, 0, start)
    \/ \E o \in ObjInsts \cap {1} : ObjectDestroy(o)

SpecBatch == InitFirstBlock /\ [][NextBatch]_vars

\* Native calls of the running operation that allocate.
Mallocs(log) == {i \in 1..Len(log) : log[i].f = "_malloc"}

\* C23: Scene.addObjects(n, parent, 0), the runtime handing out the n
\* handles start + 1 .. start + n, returns exactly n wrappers; the i-th has
\* objectId start + i and is the instance _wrapObject caches for that
\* handle, the n instances are pairwise distinct, the call allocates the
\* arena at most ceil(2n / 1024) times, and the fill call is made with a
\* capacity of at least n uint16 slots, the arena holding at least 2n bytes.
C23_BatchWrapsEveryHandle ==
    [][op'.name = "Scene.addObjects" =>
        LET n == op'.args[1]
            start == op'.args[4]
            fill == calls'[Len(calls')]
        IN  /\ ret'.err = ""
            /\ Len(ret'.val) = n
            /\ {i \in 1..n : \/ objs'[ret'.val[i]] # start + i
                             \/ ObjectCache'[start + i] # ret'.val[i]} = {}
            /\ Cardinality({ret'.val[i] : i \in 1..n}) = n
            /\ Cardinality(Mallocs(calls')) <= (2 * n + ChunkSize - 1) \div ChunkSize
            /\ fill.f = "_wl_scene_add_objects"
            /\ fill.args[2] = n
            /\ fill.args[5] >= n
            /\ _tempMemSize' >= 2 * n]_vars
\* A batch of MaxCount objects that had to grow the arena, one of its
\* handles coming back to the wrapper cached for it.
C23_BigBatchGrewArena ==
    /\ op.name = "Scene.addObjects"
    /\ op.args[1] = MaxCount
    /\ Cardinality(Mallocs(calls)) = 1
    /\ _tempMemSize >= 2 * MaxCount
    /\ Len(ret.val) = MaxCount
    /\ ret.val[1] = 1
    /\ Len(objs) = MaxCount
    /\ ret.val[2] = 2

(***************************************************************************)
(* $Object.getComponents.                                                  *)
(***************************************************************************)
\* The components the runtime lists for handle h, by manager and id.
RECURSIVE KeysInOrder(_)
KeysInOrder(S) ==
    IF S = {} THEN <<>>
    ELSE LET lo == CHOOSE k \in S : \A x \in S :
                       k[1] < x[1] \/ (k[1] = x[1] /\ k[2] <= x[2])
         IN  <<lo>> \o KeysInOrder(S \ {lo})
NativeComponents(h) ==
    IF h \notin nLive THEN <<>>
    ELSE KeysInOrder({k \in CompKeys : nCompObj[k] = h})

\* `Math.floor((_tempMemSize / 3) * 2)`
MaxComps(size) == (size * 2) \div 3

\* The arena bytes after the two fill calls: the ids as little-endian
\* uint16, then one type byte per component.
ComponentBytes(keys) ==
    LET n == Len(keys)
    IN  [j \in 1..(3 * n) |->
            IF j > 2 * n THEN keys[j - 2 * n][1]
            ELSE IF j % 2 = 1 THEN keys[(j + 1) \div 2][2] % 256
            ELSE keys[j \div 2][2] \div 256]

\* The loop of getComponents over the listed components from the i-th on:
\* those of the asked type (all of them for null) are wrapped and pushed.
RECURSIVE PushComponents(_, _, _, _, _)
PushComponents(cache, cs, keys, i, componentType) ==
    IF i > Len(keys) THEN [cache |-> cache, comps |-> cs, ret |-> <<>>]
    ELSE LET t == keys[i][1]
             componentId == keys[i][2]
         IN  IF componentType = JsNull \/ t = componentType
             THEN LET W == _wrapComponent(cache, cs, ManagerName[t], t,
                                          componentId)
                      R == PushComponents(W.cache, W.comps, keys, i + 1,
                                          componentType)
                  IN  [R EXCEPT !.ret = <<W.ret>> \o @]
             ELSE PushComponents(cache, cs, keys, i + 1, componentType)

\* $Object.getComponents(typeOrClass) of wrapper o; componentType is null
\* for a falsy argument.
ObjectGetComponents(o, componentType) ==
    LET h == ToInt32(objs[o])
        maxComps == MaxComps(_tempMemSize)
        listed == NativeComponents(h)
        componentsCount == IF Len(listed) <= maxComps THEN Len(listed)
                           ELSE maxComps
        keys == SubSeq(listed, 1, componentsCount)
        offset == 2 * componentsCount
        W == PushComponents(ComponentCache, comps, keys, 1, componentType)
    IN  /\ Len(objs) + Len(W.comps) <= MaxInst
        /\ calls' = <<Call("_wl_object_get_components",
                           <<h, ToInt32(_tempMem), maxComps>>),
                      Call("_wl_object_get_component_types",
                           <<h, ToInt32(_tempMem) + offset, maxComps>>)>>
        /\ tempData' = IF componentsCount = 0 THEN tempData
                       ELSE Staged(_tempMem, "u8", ComponentBytes(keys))
        /\ ComponentCache' = W.cache
        /\ comps' = W.comps
        /\ op' = Op("$Object.getComponents", <<o, componentType>>)
        /\ ret' = Ok(W.ret)
        /\ UNCHANGED <<ObjectCache, objs, sceneVars, _tempMem, _tempMemSize,
                       _tempMemFloat, _tempMemInt, _tempMemUint32,
                       _tempMemUint16, _tempMemUint8, heap, nativeVars,
                       histVars>>

\* Components listed while objects gain and lose them.
NextList ==
    \/ SceneAddObject(0)
    \/ \E o \in ObjInsts, m \in Managers : ObjectAddComponent(o, m)
    \/ \E o \in ObjInsts, t \in {JsNull} \cup Managers :
          ObjectGetComponents(o, t)
    \/ \E c \in CompInsts : ComponentDestroy(c)
    \/ \E o \in ObjInsts : ObjectDestroy(o)

SpecList == InitReady /\ [][NextList]_vars

\* C24: the component count getComponents passes to the two native fill
\* calls leaves room for three bytes per component in the arena.
C24_MaxCompsFitsArena ==
    [][op'.name = "$Object.getComponents" =>
        \A i \in 1..Len(calls') :
            3 * calls'[i].args[3] <= _tempMemSize]_vars

\* C25: a completion settles only its own load.  When the runtime completes
\* a load that is still in flight, the only promise that changes is the one
\* returned by the Scene.append call that started that load, whatever
\* append, completion and reset() calls came before.
C25_CompletionSettlesOwnLoad ==
    [][op'.name \in {"success", "error"} =>
        LET own == op'.args[1][2]
        IN  promises[own].state = "pending" =>
                \A p \in 1..Len(promises) :
                    promises'[p] # promises[p] => p = own]_vars

(***************************************************************************)
(* $Object.addComponent(type, original): cloning a component.              *)
(***************************************************************************)
\* The keys `for (const key in params)` visits for a component wrapper (the
\* fields its constructor assigns) and those of them the loop copies.
ComponentKeys == <<"_manager", "_id", "_object", "_type">>
EXCLUDED_COMPONENT_PROPERTIES == {"_id", "_manager", "type", "_type", "active"}
IsCloned(key) == key \notin EXCLUDED_COMPONENT_PROPERTIES
ClonedKeys == SelectSeq(ComponentKeys, IsCloned)

\* `component[key] = params[key]` for the keys that are copied.
CopyProperties(component, params) ==
    [component EXCEPT !._object =
        IF \E i \in 1..Len(ClonedKeys) : ClonedKeys[i] = "_object"
        THEN params._object ELSE @]

\* target.addComponent(type, original) for a native type m, target being
\* wrapper o and original the component wrapper c.  `'active' in params` is
\* true of a component, and `params.active` asks the runtime.
ObjectAddComponentFrom(o, m, c) ==
    LET h == ToInt32(objs[o])
        from == NativeKey(comps[c])
    IN  IF h \notin nLive
        THEN \* _wrapComponent(type, m, -1) is null: the first copy throws
             /\ calls' = <<Call("_wl_object_add_component", <<h, m>>)>>
             /\ op' = OpW("$Object.addComponent", <<o, m, c>>, <<m, -1>>,
                        FALSE, JsUndefined)
             /\ ret' = Throw("TypeError")
             /\ UNCHANGED <<cacheVars, sceneVars, arenaVars, heap, nativeVars,
                            histVars>>
        ELSE \E id \in {i \in CompIds : nCompObj[<<m, i>>] = 0} :
             LET W == _wrapComponent(ComponentCache, comps,
                                     ManagerName[m], m, id)
                 k == NativeKey(W.comps[W.ret])
                 own == [nCompObj EXCEPT ![<<m, id>>] = h]
                 activate == from \in nActive
             IN  /\ Len(objs) + Len(W.comps) <= MaxInst + 1
                 /\ ComponentCache' = W.cache
                 /\ comps' = [W.comps EXCEPT ![W.ret] =
                                 CopyProperties(@, comps[c])]
                 /\ nCompObj' = own
                 /\ nActive' = IF activate
                               THEN NativeSetActive(own, nActive, k, TRUE)
                               ELSE nActive
                 /\ calls' = <<Call("_wl_object_add_component", <<h, m>>),
                               Call("_wl_component_isActive", from)>>
                              \o (IF activate
                                  THEN <<Call("_wl_component_setActive",
                                              <<k[1], k[2], 1>>)>>
                                  ELSE <<>>)
                 /\ op' = OpW("$Object.addComponent", <<o, m, c>>, <<m, id>>,
                            CompHit(m, id), CompWas(m, id))
                 /\ ret' = Ok(W.ret)
                 /\ UNCHANGED <<ObjectCache, objs, sceneVars, arenaVars, heap,
                                nLive, histVars>>

\* Two objects and the components added to them, read and cloned.
NextClone ==
    \/ SceneAddObjects(2, 0, 0, 0)
    \/ \E o \in ObjInsts, m \in Managers : ObjectAddComponent(o, m)
    \/ \E c \in CompInsts : ComponentObject(c)
    \/ \E o \in ObjInsts, m \in Managers, c \in CompInsts :
          ObjectAddComponentFrom(o, m, c)
    \/ \E c \in CompInsts, b \in BOOLEAN : ComponentSetActive(c, b)
    \/ \E c \in CompInsts : ComponentDestroy(c)

SpecClone == InitFirstBlock /\ [][NextClone]_vars

\* C26: after target.addComponent(type, original), original being attached
\* to another object, the returned component has the (_manager, _id) the
\* runtime gave it, and its `object` property is the wrapper of target.
C26_CloneKeepsNewOwner ==
    [][(/\ op'.name = "$Object.addComponent"
        /\ Len(op'.args) = 3
        /\ ret'.err = ""
        /\ CompLive(NativeKey(comps[op'.args[3]]))
        /\ nCompObj[NativeKey(comps[op'.args[3]])]
              # ToInt32(objs[op'.args[1]]))
        => LET component == comps'[ret'.val]
               target == op'.args[1]
           IN  /\ component._manager = op'.wrap[1]
               /\ component._id = op'.wrap[2]
               /\ nCompObj'[NativeKey(component)] = ToInt32(objs[target])
               /\ IF Truthy(component._object)
                  THEN component._object = target
                  ELSE ObjectCache'[nCompObj'[NativeKey(component)]] = target
      ]_vars

\* The typed arrays a read hands to its caller.
ArrayTypes == {"Float32Array", "Uint32Array", "Int32Array"}

\* C27: a value returned by an arena-using read is copied out of the arena:
\* no array returned by a multi-component material parameter read is a view
\* over arena memory, so that later arena-using calls cannot change it.
C27_ResultsCopiedOut ==
    [][(/\ op'.name = "Material.get"
        /\ ret'.err = ""
        /\ ret'.val.t \in ArrayTypes)
        => LET byteOffset == ret'.val.v[1]
           IN  ~(/\ ToInt32(_tempMem') <= byteOffset
                 /\ byteOffset < ToInt32(_tempMem') + _tempMemSize')]_vars

\* Every call that stores or invalidates a wrapper: init (the allocator
\* handing the arena its old block again), reset, direct wraps,
\* addObject(s), addComponent, getComponent(s) and the two destroys.
NextCache ==
    \/ ApiInit /\ _tempMem' = _tempMem
    \/ ApiReset
    \/ \E h \in ObjHandles : WrapObjectCall(h)
    \/ \E m \in Managers : WrapComponentCall(m, 0)
    \/ SceneAddObject(0)
    \/ Len(objs) + Len(comps) < MaxInst /\ SceneAddObjects(2, 0, 0, 0)
    \/ \E o \in ObjInsts, m \in Managers : ObjectAddComponent(o, m)
    \/ \E o \in ObjInsts, m \in Managers : ObjectGetComponent(o, m, 0)
    \/ \E o \in ObjInsts : ObjectGetComponents(o, JsNull)
    \/ \E o \in ObjInsts : ObjectDestroy(o)
    \/ \E c \in CompInsts : ComponentDestroy(c)

SpecCache == InitFirstBlock /\ [][NextCache]_vars

\* The keys of the two caches that hold a wrapper.
CachedHandles == {h \in DOMAIN ObjectCache : ObjectCache[h] # NoInst}
CachedComponents == {k \in DOMAIN ComponentCache : ComponentCache[k] # NoInst}

\* C28: the wrapper the node cache holds at index h has objectId h or null,
\* the wrapper the component cache holds at [m][id] has (_manager, _id) equal
\* to (m, id) or both undefined, and different keys hold different
\* instances.
C28_CacheEntriesMatchKeys ==
    /\ \A h \in CachedHandles : objs[ObjectCache[h]] \in {h, JsNull}
    /\ \A k \in CachedComponents :
          LET c == comps[ComponentCache[k]]
          IN  \/ c._manager = k[1] /\ c._id = k[2]
              \/ c._manager = JsUndefined /\ c._id = JsUndefined
    /\ \A h1, h2 \in CachedHandles :
          h1 # h2 => ObjectCache[h1] # ObjectCache[h2]
    /\ \A k1, k2 \in CachedComponents :
          k1 # k2 => ComponentCache[k1] # ComponentCache[k2]
\* Two cached node wrappers, one of them destroyed, and a cached wrapper of
\* a component of manager 1.
C28_DestroyedAndLiveCached ==
    /\ Cardinality(CachedHandles) >= 2
    /\ \E h \in CachedHandles : objs[ObjectCache[h]] = JsNull
    /\ \E h \in CachedHandles : objs[ObjectCache[h]] = h
    /\ \E k \in CachedComponents :
          k[1] = 1 /\ comps[ComponentCache[k]]._manager = 1

(***************************************************************************)
(* Animation.retarget(newTargets) for a list of objects.                   *)
(***************************************************************************)
\* `x >> n` for x >= 0
ShiftRight(x, n) == x \div (2 ^ n)

\* The stores `HEAPU16[ptr >> (1 + i)] = newTargets[i].objectId` of the
\* loop, as log entries <<16-bit index, value stored>>.
RetargetStores(ptr, ids) ==
    [j \in 1..Len(ids) |->
        Call("HEAPU16[]=", <<ShiftRight(ptr, 1 + (j - 1)), ToUint16(ToInt32(ids[j]))>>)]

\* Lists of at most two wrappers.
TargetLists == {<<>>} \cup {<<a>> : a \in ObjInsts}
                  \cup {<<a, b>> : a \in ObjInsts, b \in ObjInsts}

\* animation.retarget(newTargets) of Animation `index`, whose track count
\* the runtime reports as trackCount; the log holds the native calls and the
\* heap stores in order.
AnimationRetarget(index, trackCount, newTargets) ==
    /\ op' = Op("Animation.retarget", <<index, trackCount, newTargets>>)
    /\ IF Len(newTargets) # trackCount
       THEN /\ calls' = <<Call("_wl_animation_get_trackCount", <<index>>),
                          Call("_wl_animation_get_trackCount", <<index>>)>>
            /\ ret' = Throw("Error")
       ELSE \E ptr \in MallocResults(heap), animId \in {index + 1} :
            /\ calls' = <<Call("_wl_animation_get_trackCount", <<index>>),
                          Call("_malloc", <<2 * Len(newTargets)>>)>>
                        \o RetargetStores(ptr,
                              [j \in 1..Len(newTargets) |-> objs[newTargets[j]]])
                        \o <<Call("_wl_animation_retarget", <<index, ptr>>),
                             Call("_free", <<ptr>>)>>
            /\ ret' = Ok(JsValue("Animation", <<animId>>))
    /\ UNCHANGED <<cacheVars, sceneVars, arenaVars, heap, nativeVars, histVars>>

NextAnimation ==
    \/ SceneAddObject(0)
    \/ \E o \in ObjInsts : ObjectDestroy(o)
    \/ \E index \in {0, 1}, trackCount \in 0..2, newTargets \in TargetLists :
          AnimationRetarget(index, trackCount, newTargets)

SpecAnimation == InitReady /\ [][NextAnimation]_vars

\* The heap stores of a log.
Stores(log) == {i \in 1..Len(log) : log[i].f = "HEAPU16[]="}

\* C29: Animation.retarget with k = trackCount targets writes the objectId
\* of target i to the 16-bit slot (ptr >> 1) + i of the buffer it allocated,
\* for every i in [0, k), writes nothing outside these slots and frees the
\* buffer after the native call; a list of another length throws before
\* anything is allocated.
C29_TargetsStagedInOrder ==
    [][op'.name = "Animation.retarget" =>
        LET k == op'.args[2]
            newTargets == op'.args[3]
            n == Len(calls')
        IN  IF Len(newTargets) # k
            THEN /\ ret'.err = "Error"
                 /\ \A i \in 1..n : calls'[i].f # "_malloc"
            ELSE LET ptr == calls'[n].args[1]
                 IN  /\ calls'[n].f = "_free"
                     /\ calls'[n - 1] = Call("_wl_animation_retarget",
                                             <<op'.args[1], ptr>>)
                     /\ Cardinality(Stores(calls')) = k
                     /\ \A i \in 0..(k - 1) :
                          \E s \in Stores(calls') :
                            calls'[s].args =
                              <<ShiftRight(ptr, 1) + i,
                                ToUint16(ToInt32(objs[newTargets[i + 1]]))>>
      ]_vars

(***************************************************************************)
(* Textures of HTML media elements and the image table.                    *)
(***************************************************************************)
\* The media elements handed to `new Texture`.
Elements == {1, 2}

\* `arr[index] = value`: a store past the end leaves holes before it.
SetSlot(arr, index, value) ==
    [i \in 1..(IF index + 1 > Len(arr) THEN index + 1 ELSE Len(arr)) |->
        IF i = index + 1 THEN value
        ELSE IF i <= Len(arr) THEN arr[i] ELSE JsUndefined]

\* new Texture(param) for a media element; id is the texture id
\* _wl_renderer_addImage returns.
TextureFromImage(param, id) ==
    LET index == Len(_images)
    IN  /\ Len(texs) <= MaxTextures
        /\ _images' = Append(_images, param)
        /\ _imageIndex' = Append(_imageIndex, index)
        /\ texs' = Append(texs, id)
        /\ textures' = [textures EXCEPT ![id] = Len(texs) + 1]
        /\ op' = Op("new Texture", <<param, id>>)
        /\ calls' = <<Call("_wl_renderer_addImage", <<index>>)>>
        /\ ret' = Ok(JsValue("Texture", <<Len(texs) + 1>>))
        /\ UNCHANGED <<materials, nParams, nMeshMaterial, scene, accessor,
                       nMesh, loadVars, cacheVars, arenaVars, heap,
                       nativeVars, histVars>>

\* Texture.destroy() of instance t.
TextureDestroy(t) ==
    /\ calls' = <<Call("_wl_texture_destroy", <<ToInt32(texs[t])>>)>>
    /\ IF Truthy(_imageIndex[t])
       THEN /\ _images' = SetSlot(_images, _imageIndex[t], JsNull)
            /\ _imageIndex' = [_imageIndex EXCEPT ![t] = JsUndefined]
       ELSE UNCHANGED imageVars
    /\ op' = Op("Texture.destroy", <<t>>)
    /\ ret' = Ok(JsUndefined)
    /\ UNCHANGED <<materials, texs, textures, nParams, nMeshMaterial, scene,
                   accessor, nMesh, loadVars, cacheVars, arenaVars, heap,
                   nativeVars, histVars>>

NextTexture ==
    \/ ApiReset
    \/ \E param \in Elements, id \in TextureIds : TextureFromImage(param, id)
    \/ \E id \in TextureIds : TextureNew(id)
    \/ \E t \in TexInsts : TextureDestroy(t)

SpecTexture == InitReady /\ [][NextTexture]_vars

\* C30: destroy() of a texture created from a media element, whatever index
\* its image got in the table (0 included), leaves _images[index] null and
\* clears the texture's image index; destroy() of a texture created from a
\* numeric id changes no slot of the table.
C30_DestroyReleasesImageSlot ==
    [][op'.name = "Texture.destroy" =>
        LET t == op'.args[1]
            index == _imageIndex[t]
        IN  IF index # JsUndefined
            THEN /\ Len(_images') > index
                 /\ _images'[index + 1] = JsNull
                 /\ _imageIndex'[t] = JsUndefined
            ELSE _images' = _images]_vars

====
